---- MODULE Spec2Model ----
(***************************************************************************)
(* Transcription and speaker-diarization pipeline of the coaching          *)
(* assistant: the segment/speaker aligner and the batch orchestration of   *)
(* src/audio_tests, and the live-session controller of src/app.py.         *)
(*                                                                         *)
(* Strings are sequences of one-character strings, so that formatting      *)
(* ("<speaker>: <text>", joins on " ", "\n" and "\n\n") is computed and    *)
(* can be parsed back.  Times are integers; the midpoint (start+end)/2 is  *)
(* compared in doubled units (start+end against 2*bound), which is exact.  *)
(* An optional value (Python None or a value) is a sequence of length 0    *)
(* or 1.                                                                   *)
(***************************************************************************)
EXTENDS Integers, Sequences, FiniteSets, TLC

\* ------------------------------------------------------------------ bounds
MaxSegs == 3
MaxIvs == 2
MaxTime == 3
MaxSessions == 2
MaxUtts == 2
MaxStops == 3
MaxChunks == 6
MaxUploads == 3
MaxItems == 3
MaxClock == 2
MaxCalls == 3
MaxAttempt == 6
MaxFolders == 2
MaxPrompts == 1
MaxReruns == 2

\* --------------------------------------------------------------- strings
NL == <<"\n">>
NLNL == <<"\n", "\n">>
SP == <<" ">>
COLON_SP == <<":", " ">>
UNKNOWN == <<"U", "N", "K", "N", "O", "W", "N">>
Speaker00 == <<"S", "p", "e", "a", "k", "e", "r", " ", "0", "0">>
Speaker01 == <<"S", "p", "e", "a", "k", "e", "r", " ", "0", "1">>

\* str.join: sep.join(strs)
RECURSIVE Join(_, _)
Join(strs, sep) ==
    IF strs = <<>> THEN <<>>
    ELSE IF Len(strs) = 1 THEN strs[1]
    ELSE strs[1] \o sep \o Join(Tail(strs), sep)

\* Python truthiness of an optional string: None and "" are falsy
Truthy(opt) == opt # <<>> /\ opt[1] # <<>>

\* ------------------------------------------------------- align (aligner)
\* the inner for/break loop: speaker of the first interval containing the
\* midpoint, "UNKNOWN" when the loop ends without a match
RECURSIVE FindSpeakerLast(_, _, _)
FindSpeakerLast(mid2, speaker_segments, j) ==
    IF j > Len(speaker_segments) THEN UNKNOWN
    ELSE LET spk_seg == speaker_segments[j]
             rest == FindSpeakerLast(mid2, speaker_segments, j + 1)
         IN IF 2 * spk_seg.start <= mid2 /\ mid2 <= 2 * spk_seg.end /\ rest = UNKNOWN
            THEN spk_seg.speaker
            ELSE rest

RECURSIVE FindSpeaker(_, _, _)
FindSpeaker(mid2, speaker_segments, j) ==
    IF j > Len(speaker_segments) THEN UNKNOWN
    ELSE LET spk_seg == speaker_segments[j]
         IN IF 2 * spk_seg.start <= mid2 /\ mid2 <= 2 * spk_seg.end
            THEN spk_seg.speaker
            ELSE FindSpeaker(mid2, speaker_segments, j + 1)

\* twice the midpoint (text_seg["start"] + text_seg["end"]) / 2
Midpoint2(text_seg) == text_seg.start + text_seg.end

SpeakerAt(text_seg, speaker_segments) ==
    FindSpeaker(Midpoint2(text_seg), speaker_segments, 1)

\* f"{current_speaker}: {' '.join(current_text)}"
FormatLine(current_speaker, current_text) ==
    current_speaker \o COLON_SP \o Join(current_text, SP)

\* a flush that leaves out the turns of unmatched segments
FlushSkipsUnknown(aligned, current_speaker, current_text) ==
    IF Truthy(current_speaker) /\ current_speaker[1] # UNKNOWN /\ current_text # <<>>
    THEN Append(aligned, FormatLine(current_speaker[1], current_text))
    ELSE aligned

\* the flush guarded by "if current_speaker and current_text"
Flush(aligned, current_speaker, current_text) ==
    IF Truthy(current_speaker) /\ current_text # <<>>
    THEN Append(aligned, FormatLine(current_speaker[1], current_text))
    ELSE aligned

\* the grouping loop over text_segments from index i on, then the last flush
RECURSIVE AlignLoopNoLastFlush(_, _, _, _, _, _)
AlignLoopNoLastFlush(text_segments, speaker_segments, i, aligned, current_speaker, current_text) ==
    IF i > Len(text_segments)
    THEN aligned
    ELSE LET text_seg == text_segments[i]
             speaker == SpeakerAt(text_seg, speaker_segments)
         IN IF <<speaker>> = current_speaker
            THEN AlignLoopNoLastFlush(text_segments, speaker_segments, i + 1, aligned,
                                      current_speaker, Append(current_text, text_seg.text))
            ELSE AlignLoopNoLastFlush(text_segments, speaker_segments, i + 1,
                                      Flush(aligned, current_speaker, current_text),
                                      <<speaker>>, <<text_seg.text>>)

RECURSIVE AlignLoop(_, _, _, _, _, _)
AlignLoop(text_segments, speaker_segments, i, aligned, current_speaker, current_text) ==
    IF i > Len(text_segments)
    THEN Flush(aligned, current_speaker, current_text)
    ELSE LET text_seg == text_segments[i]
             speaker == SpeakerAt(text_seg, speaker_segments)
         IN IF <<speaker>> = current_speaker
            THEN AlignLoop(text_segments, speaker_segments, i + 1, aligned,
                           current_speaker, Append(current_text, text_seg.text))
            ELSE AlignLoop(text_segments, speaker_segments, i + 1,
                           Flush(aligned, current_speaker, current_text),
                           <<speaker>>, <<text_seg.text>>)

SegTexts(text_segments) == [k \in 1..Len(text_segments) |-> text_segments[k].text]

\* align_transcription_with_speakers with the fallback branch left out
AlignNoFallback(text_segments, speaker_segments) ==
    Join(AlignLoop(text_segments, speaker_segments, 1, <<>>, <<>>, <<>>), NLNL)

align_transcription_with_speakers(text_segments, speaker_segments) ==
    IF speaker_segments = <<>>
    THEN Join(SegTexts(text_segments), NL)
    ELSE Join(AlignLoop(text_segments, speaker_segments, 1, <<>>, <<>>, <<>>), NLNL)

\* ---------------------------------------------------------------- inputs
\* Texts of a segment after .strip(): possibly empty, no newline inside.
Texts == {<<>>, <<"a">>, <<"b">>}
SpeakerLabels == {Speaker00, Speaker01}
Spans == {p \in (0..MaxTime) \X (0..MaxTime) : p[1] < p[2]}
TextSeg == {[text |-> t, start |-> p[1], end |-> p[2]] : t \in Texts, p \in Spans}
SpkSeg == {[speaker |-> s, start |-> p[1], end |-> p[2]] : s \in SpeakerLabels, p \in Spans}

\* sentences of a recogniser: chronological, one after the other
Chronological(segs) == \A k \in 1..(Len(segs) - 1) : segs[k].end <= segs[k + 1].start
\* turns of a diarizer: ordered by start time, possibly overlapping
ByStart(ivs) == \A k \in 1..(Len(ivs) - 1) : ivs[k].start <= ivs[k + 1].start

SegSeqs == UNION {{s \in [1..n -> TextSeg] : Chronological(s)} : n \in 0..MaxSegs}
IvSeqs == UNION {{s \in [1..n -> SpkSeg] : ByStart(s)} : n \in 0..MaxIvs}

\* ----------------------------------------------------------------- state
VARIABLES
    text_segments,      \* align: first argument; main: parakeet_result['segments']
    speaker_segments,   \* align: second argument; main: speaker_segments
    result,             \* align: optional return value (<<>> before the call)
    pc,                 \* main: position in the script
    hf_token,           \* main: os.getenv("HUGGINGFACE_TOKEN") is set
    full_text,          \* main: parakeet_result['full_text'] (optional)
    diar,               \* main: how step 2 ended: "none", "ok", "failed", "skipped"
    had_diarization,    \* main: had_diarization
    final_text,         \* main: final_text (optional)
    saved,              \* main: arguments save_results wrote (optional)
    error,              \* main: the call whose exception reached the outer except
    cl_state,           \* streaming client objects: state of each
    cl_buffer,          \* streaming client objects: LiveTranscriptBuffer of each
    cl_call,            \* streaming client objects: the blocking call in progress
    cl_start_ret,       \* streaming client objects: optional return value of start()
    cl_stop_rets,       \* streaming client objects: return values of stop(), in order
    ui_pc,              \* app: handler in progress ("idle", "starting", "ending")
    transcriber,        \* app: local variable transcriber of the Start Session handler
    n_created,          \* app: transcribers constructed / session folders requested
    dg_key,             \* app: is_deepgram_available()
    is_recording,       \* st.session_state.is_recording
    live_transcriber,   \* st.session_state.live_transcriber (0 is None)
    recording_session_path,  \* st.session_state.recording_session_path (0 is None)
    completed_session_info,  \* st.session_state.completed_session_info (0 is None)
    active_sessions,    \* capturer: the capture sessions holding the device
    start_recording_ret,     \* capturer: outcome of the last start_recording call
    saved_transcripts   \* transcription.txt of each session folder (optional)

alignVars == <<text_segments, speaker_segments, result>>
batchVars == <<pc, hf_token, full_text, diar, had_diarization, final_text, saved, error>>
clientVars == <<cl_state, cl_buffer, cl_call, cl_start_ret, cl_stop_rets>>
appVars == <<ui_pc, transcriber, n_created, dg_key, is_recording, live_transcriber,
             recording_session_path, completed_session_info, active_sessions,
             start_recording_ret, saved_transcripts>>
\* the capture session and its two consumers
VARIABLES
    ch_session,         \* capturer: "none", "recording", "stopped"
    ch_delivered,       \* capturer: number of blocks the device delivered
    ch_pending,         \* capture context: what is left to do with the current block
    ch_file,            \* file writer: the blocks written to output_path, in order
    ch_on_chunk,        \* the blocks on_chunk was invoked with, in order
    ch_queue,           \* streaming client: outbound queue
    ch_sent             \* streaming client: the blocks transmitted, in order

chunkVars == <<ch_session, ch_delivered, ch_pending, ch_file, ch_on_chunk, ch_queue, ch_sent>>

\* Tab 1, Transcribe Audio: the session folders on disk and the session state
VARIABLES
    up_folders,         \* number of session folders created (Session_1 .. Session_n)
    up_files,           \* for each session folder, the audio files in it
    up_transcripts,     \* for each session folder, its transcription.txt (optional)
    up_last,            \* last run of the Transcribe handler: the call that raised, the exception
    transcription_result,          \* st.session_state.transcription_result (optional)
    transcription_session_path,    \* st.session_state.transcription_session_path (0 is None)
    transcription_session_folder   \* st.session_state.transcription_session_folder (0 is None)

uploadVars == <<up_folders, up_files, up_transcripts, up_last, transcription_result,
                transcription_session_path, transcription_session_folder>>

\* format_diarized_transcript
VARIABLES
    response,           \* argument: the results of a Deepgram response
    formatted           \* optional return value (<<>> before the call)

cloudVars == <<response, formatted>>

\* transcribe_with_parakeet / transcribe_with_voxtral
VARIABLES
    engine,             \* which of the two scripts runs
    raw_segments,       \* result.sentences / result["segments"] of the recogniser
    raw_text            \* result.text / result["text"] of the recogniser (optional)

engineVars == <<engine, raw_segments, raw_text>>

\* convert_wav_to_mp3 / transcribe_with_deepgram: one recording on disk
VARIABLES
    now,                \* the clock the file system stamps files with
    wav_mtime,          \* wav_path.stat().st_mtime
    mp3_mtime,          \* mp3_path.stat().st_mtime (<<>>: mp3_path does not exist)
    conv_calls,         \* calls of convert_wav_to_mp3 so far
    conv_ran,           \* last call of convert_wav_to_mp3: subprocess.run was reached
    conv_rc,            \* last call of convert_wav_to_mp3: result.returncode (optional)
    conv_ret,           \* last call of convert_wav_to_mp3: "mp3_path" or the exception raised
    conv_wav,           \* wav_mtime at the last call of convert_wav_to_mp3 (optional)
    dg_trace,           \* last call of transcribe_with_deepgram: what it did, in order
    dg_out              \* last call of transcribe_with_deepgram: exception raised, value returned

convVars == <<now, wav_mtime, mp3_mtime, conv_calls, conv_ran, conv_rc, conv_ret, conv_wav>>
dgVars == <<dg_trace, dg_out>>

\* verify_document_draft and the agent that calls it
VARIABLES
    document_type,      \* argument document_type of the calls
    draft,              \* argument content: the character counts the function reads
    attempt,            \* argument attempt of the next call
    verifications,      \* calls of verify_document_draft so far
    reply,              \* return value of the last call: which message it is
    edit_instructions,  \* return value of the last call: its SPECIFIC EDITS NEEDED list
    doc_saved           \* the agent called the save tool

verifyVars == <<document_type, draft, attempt, verifications, reply, edit_instructions,
               doc_saved>>

\* Tab 3, Active Clients, and the session folders of the clients
VARIABLES
    disk,               \* the session folders on disk, each with its files
    session_state,      \* st.session_state: the keys of Tab 3
    last_created,       \* last call of create_session_folder_for_transcription (optional)
    last_rerun          \* last rerun of Tab 3: its widget values and what it displayed

tabVars == <<disk, session_state, last_created, last_rerun>>

restVars == <<chunkVars, uploadVars, cloudVars, engineVars, convVars, dgVars, verifyVars,
              tabVars>>

vars == <<alignVars, batchVars, clientVars, appVars, restVars>>

ClientIds == 1..MaxSessions

ClientsIdle ==
    /\ cl_state = [c \in ClientIds |-> "Idle"]
    /\ cl_buffer = [c \in ClientIds |-> <<>>]
    /\ cl_call = [c \in ClientIds |-> "none"]
    /\ cl_start_ret = [c \in ClientIds |-> <<>>]
    /\ cl_stop_rets = [c \in ClientIds |-> <<>>]

\* the session state initialisation of the app, before any handler ran
AppIdle ==
    /\ ui_pc = "idle"
    /\ transcriber = 0
    /\ n_created = 0
    /\ is_recording = FALSE
    /\ live_transcriber = 0
    /\ recording_session_path = 0
    /\ completed_session_info = 0
    /\ active_sessions = {}
    /\ start_recording_ret = "none"
    /\ saved_transcripts = [p \in ClientIds |-> <<>>]

ChunksIdle ==
    /\ ch_session = "none"
    /\ ch_delivered = 0
    /\ ch_pending = {}
    /\ ch_file = <<>>
    /\ ch_on_chunk = <<>>
    /\ ch_queue = <<>>
    /\ ch_sent = <<>>

FolderIds == 1..MaxUploads

UploadIdle ==
    /\ up_folders = 0
    /\ up_files = [f \in FolderIds |-> {}]
    /\ up_transcripts = [f \in FolderIds |-> <<>>]
    /\ up_last = <<"none", "none">>
    /\ transcription_result = <<>>
    /\ transcription_session_path = 0
    /\ transcription_session_folder = 0

NoResponse == [utterances |-> <<>>, channels |-> <<>>]

CloudIdle ==
    /\ response = NoResponse
    /\ formatted = <<>>

EngineIdle ==
    /\ engine = "none"
    /\ raw_segments = <<>>
    /\ raw_text = <<>>

\* no recording on disk, nothing converted or transcribed
DeepgramIdle ==
    /\ now = 0
    /\ wav_mtime = 0
    /\ mp3_mtime = <<>>
    /\ conv_calls = 0
    /\ conv_ran = FALSE
    /\ conv_rc = <<>>
    /\ conv_ret = "none"
    /\ conv_wav = <<>>
    /\ dg_trace = <<>>
    /\ dg_out = [raised |-> "none", returned |-> <<>>]

NoDraft == [total |-> 0]

VerifyIdle ==
    /\ document_type = "none"
    /\ draft = NoDraft
    /\ attempt = 1
    /\ verifications = 0
    /\ reply = "none"
    /\ edit_instructions = <<>>
    /\ doc_saved = FALSE

\* no session folder on disk
NoFolders == [f \in {} |-> <<>>]

\* SESSION STATE INITIALIZATION, Tab 3 (current_session_date is not
\* initialised: st.session_state.get returns None for it)
SessionStateInit ==
    [messages_active |-> <<>>, session_documents |-> <<>>, current_session_folder |-> <<>>,
     is_new_session_mode |-> FALSE, current_active_client |-> <<>>,
     loaded_transcription |-> <<>>, transcription_added_to_chat |-> FALSE,
     documents_added_to_chat |-> FALSE, current_session_date |-> <<>>]

NoRerun ==
    [reruns |-> 0, client |-> <<>>, session_folder |-> <<>>, is_new |-> FALSE,
     chatted |-> FALSE, shown |-> {}]

TabIdle ==
    /\ disk = NoFolders
    /\ session_state = SessionStateInit
    /\ last_created = <<>>
    /\ last_rerun = NoRerun

RestIdle ==
    /\ TabIdle
    /\ ChunksIdle
    /\ UploadIdle
    /\ CloudIdle
    /\ EngineIdle
    /\ DeepgramIdle
    /\ VerifyIdle

BatchIdle ==
    /\ hf_token = FALSE
    /\ full_text = <<>>
    /\ diar = "none"
    /\ had_diarization = FALSE
    /\ final_text = <<>>
    /\ saved = <<>>
    /\ error = "none"

\* ------------------------------------------------------- SpecAlign: align
InitAlign ==
    /\ text_segments \in SegSeqs
    /\ speaker_segments \in IvSeqs
    /\ result = <<>>
    /\ pc = "align"
    /\ BatchIdle
    /\ ClientsIdle
    /\ AppIdle
    /\ RestIdle
    /\ dg_key = FALSE

CallAlign ==
    /\ pc = "align"
    /\ result = <<>>
    /\ result' = <<align_transcription_with_speakers(text_segments, speaker_segments)>>
    /\ UNCHANGED <<text_segments, speaker_segments, batchVars, clientVars, appVars, restVars>>

NextAlign == CallAlign

SpecAlign == InitAlign /\ [][NextAlign]_vars

\* ------------------------------------- SpecBatch: main of the local scripts
\* full_text of a recogniser result: the whole transcription; a result
\* without segments may still carry a text
FullTexts(segments) ==
    IF segments = <<>> THEN {<<>>, <<"a">>} ELSE {Join(SegTexts(segments), SP)}

InitBatch ==
    /\ pc = "step1"
    /\ hf_token \in BOOLEAN
    /\ text_segments = <<>>
    /\ speaker_segments = <<>>
    /\ result = <<>>
    /\ full_text = <<>>
    /\ diar = "none"
    /\ had_diarization = FALSE
    /\ final_text = <<>>
    /\ saved = <<>>
    /\ error = "none"
    /\ ClientsIdle
    /\ AppIdle
    /\ RestIdle
    /\ dg_key = FALSE

\* Step 1: transcribe_with_parakeet / transcribe_with_voxtral returns; then
\* had_diarization = False, speaker_segments = []
Transcribe ==
    /\ pc = "step1"
    /\ \E segs \in SegSeqs : \E ft \in FullTexts(segs) :
           /\ text_segments' = segs
           /\ full_text' = <<ft>>
    /\ had_diarization' = FALSE
    /\ speaker_segments' = <<>>
    /\ pc' = "step2"
    /\ UNCHANGED <<result, hf_token, diar, final_text, saved, error>>
    /\ UNCHANGED <<clientVars, appVars, restVars>>

\* Step 1 raises: the outer except prints the error and exits with status 1
TranscribeFails ==
    /\ pc = "step1"
    /\ pc' = "exit1"
    /\ error' = "transcribe"
    /\ UNCHANGED <<alignVars, hf_token, full_text, diar, had_diarization, final_text, saved>>
    /\ UNCHANGED <<clientVars, appVars, restVars>>

\* Step 2, token set, diarize_with_pyannote returns its turns
DiarizeOk ==
    /\ pc = "step2"
    /\ hf_token
    /\ \E ivs \in IvSeqs : speaker_segments' = ivs
    /\ had_diarization' = TRUE
    /\ diar' = "ok"
    /\ pc' = "step3"
    /\ UNCHANGED <<text_segments, result, hf_token, full_text, final_text, saved, error>>
    /\ UNCHANGED <<clientVars, appVars, restVars>>

\* Step 2 with the exception of diarize_with_pyannote escaping main's try
DiarizeFailsUncaught ==
    /\ pc = "step2"
    /\ hf_token
    /\ diar' = "failed"
    /\ pc' = "exit1"
    /\ error' = "diarize"
    /\ UNCHANGED <<alignVars, hf_token, full_text, had_diarization, final_text, saved>>
    /\ UNCHANGED <<clientVars, appVars, restVars>>

\* Step 2, token set, diarize_with_pyannote raises: caught by the inner
\* except, which only prints
DiarizeFails ==
    /\ pc = "step2"
    /\ hf_token
    /\ diar' = "failed"
    /\ pc' = "step3"
    /\ UNCHANGED <<alignVars, hf_token, full_text, had_diarization, final_text, saved, error>>
    /\ UNCHANGED <<clientVars, appVars, restVars>>

\* Step 2, no token: diarization is skipped
DiarizeSkipped ==
    /\ pc = "step2"
    /\ ~hf_token
    /\ diar' = "skipped"
    /\ pc' = "step3"
    /\ UNCHANGED <<alignVars, hf_token, full_text, had_diarization, final_text, saved, error>>
    /\ UNCHANGED <<clientVars, appVars, restVars>>

\* Step 3: align when there are segments, else the recogniser's full text
AlignStep ==
    /\ pc = "step3"
    /\ IF text_segments # <<>>
       THEN /\ result' = <<align_transcription_with_speakers(text_segments, speaker_segments)>>
            /\ final_text' = result'
       ELSE /\ final_text' = full_text
            /\ UNCHANGED result
    /\ pc' = "save"
    /\ UNCHANGED <<text_segments, speaker_segments, hf_token, full_text, diar,
                   had_diarization, saved, error>>
    /\ UNCHANGED <<clientVars, appVars, restVars>>

\* save_results(audio_file.stem, final_text, duration, results_folder, had_diarization)
SaveResults ==
    /\ pc = "save"
    /\ saved' = <<[transcription |-> final_text[1], had_diarization |-> had_diarization]>>
    /\ pc' = "saved"
    /\ UNCHANGED <<alignVars, hf_token, full_text, diar, had_diarization, final_text, error>>
    /\ UNCHANGED <<clientVars, appVars, restVars>>

\* save_results raises (the results folder is not created by the script):
\* the outer except prints the error and exits with status 1
SaveFails ==
    /\ pc = "save"
    /\ pc' = "exit1"
    /\ error' = "save"
    /\ UNCHANGED <<alignVars, hf_token, full_text, diar, had_diarization, final_text, saved>>
    /\ UNCHANGED <<clientVars, appVars, restVars>>

NextBatch ==
    \/ Transcribe
    \/ TranscribeFails
    \/ DiarizeOk
    \/ DiarizeFails
    \/ DiarizeSkipped
    \/ AlignStep
    \/ SaveResults
    \/ SaveFails

SpecBatch == InitBatch /\ [][NextBatch]_vars

\* ------------------------------------------ streaming transcription client
\* DeepgramLiveTranscriber: Idle -> Connecting -> Streaming -> Stopping ->
\* Closed, and Failed.  start() and stop() block their caller; cl_call names
\* the call a client's caller is blocked in.

\* finalized utterances as the service delivers them, already formatted
Utterances == {FormatLine(Speaker00, <<"a">>), FormatLine(Speaker01, <<"b">>)}

\* the fully assembled transcript of a LiveTranscriptBuffer
Transcript(buffer) == Join(buffer, NLNL)

\* start() is entered: the connection is being opened
StartCall(c) ==
    /\ cl_state[c] = "Idle"
    /\ cl_call[c] = "none"
    /\ cl_state' = [cl_state EXCEPT ![c] = "Connecting"]
    /\ cl_call' = [cl_call EXCEPT ![c] = "start"]
    /\ UNCHANGED <<cl_buffer, cl_start_ret, cl_stop_rets>>

\* the connection is open: start() returns true
ConnectOk(c) ==
    /\ cl_state[c] = "Connecting"
    /\ cl_state' = [cl_state EXCEPT ![c] = "Streaming"]
    /\ cl_call' = [cl_call EXCEPT ![c] = "none"]
    /\ cl_start_ret' = [cl_start_ret EXCEPT ![c] = <<TRUE>>]
    /\ UNCHANGED <<cl_buffer, cl_stop_rets>>

\* authentication or connection fails: start() returns false
ConnectFail(c) ==
    /\ cl_state[c] = "Connecting"
    /\ cl_state' = [cl_state EXCEPT ![c] = "Failed"]
    /\ cl_call' = [cl_call EXCEPT ![c] = "none"]
    /\ cl_start_ret' = [cl_start_ret EXCEPT ![c] = <<FALSE>>]
    /\ UNCHANGED <<cl_buffer, cl_stop_rets>>

\* a finalized utterance arrives and is appended to the buffer
ResultArrives(c, u) ==
    /\ cl_state[c] \in {"Streaming", "Stopping"}
    /\ Len(cl_buffer[c]) < MaxUtts
    /\ cl_buffer' = [cl_buffer EXCEPT ![c] = Append(@, u)]
    /\ UNCHANGED <<cl_state, cl_call, cl_start_ret, cl_stop_rets>>

\* the connection drops with the buffer emptied on failure
ConnectionDropResets(c) ==
    /\ cl_state[c] \in {"Streaming", "Stopping"}
    /\ cl_state' = [cl_state EXCEPT ![c] = "Failed"]
    /\ cl_buffer' = [cl_buffer EXCEPT ![c] = <<>>]
    /\ IF cl_call[c] = "stop"
       THEN /\ cl_stop_rets' = [cl_stop_rets EXCEPT ![c] = Append(@, Transcript(<<>>))]
            /\ cl_call' = [cl_call EXCEPT ![c] = "none"]
       ELSE UNCHANGED <<cl_stop_rets, cl_call>>
    /\ UNCHANGED cl_start_ret

\* the connection drops mid-session: Failed; a caller blocked in stop() gets
\* what was accumulated
ConnectionDrop(c) ==
    /\ cl_state[c] \in {"Streaming", "Stopping"}
    /\ cl_state' = [cl_state EXCEPT ![c] = "Failed"]
    /\ IF cl_call[c] = "stop"
       THEN /\ cl_stop_rets' = [cl_stop_rets EXCEPT ![c] = Append(@, Transcript(cl_buffer[c]))]
            /\ cl_call' = [cl_call EXCEPT ![c] = "none"]
       ELSE UNCHANGED <<cl_stop_rets, cl_call>>
    /\ UNCHANGED <<cl_buffer, cl_start_ret>>

\* stop() on a client that was stopped before starts over from Idle
StopCallRestarts(c) ==
    /\ cl_call[c] = "none"
    /\ cl_state[c] \in {"Streaming", "Closed", "Failed"}
    /\ Len(cl_stop_rets[c]) < MaxStops
    /\ IF cl_state[c] = "Streaming"
       THEN /\ cl_state' = [cl_state EXCEPT ![c] = "Stopping"]
            /\ cl_call' = [cl_call EXCEPT ![c] = "stop"]
            /\ UNCHANGED <<cl_stop_rets, cl_buffer>>
       ELSE /\ cl_stop_rets' = [cl_stop_rets EXCEPT ![c] = Append(@, Transcript(<<>>))]
            /\ cl_state' = [cl_state EXCEPT ![c] = "Idle"]
            /\ cl_buffer' = [cl_buffer EXCEPT ![c] = <<>>]
            /\ UNCHANGED cl_call
    /\ UNCHANGED cl_start_ret

\* stop() is entered: a streaming client signals end-of-stream and waits; a
\* Closed or Failed client returns the transcript it has at once
StopCall(c) ==
    /\ cl_call[c] = "none"
    /\ cl_state[c] \in {"Streaming", "Closed", "Failed"}
    /\ Len(cl_stop_rets[c]) < MaxStops
    /\ IF cl_state[c] = "Streaming"
       THEN /\ cl_state' = [cl_state EXCEPT ![c] = "Stopping"]
            /\ cl_call' = [cl_call EXCEPT ![c] = "stop"]
            /\ UNCHANGED cl_stop_rets
       ELSE /\ cl_stop_rets' = [cl_stop_rets EXCEPT ![c] = Append(@, Transcript(cl_buffer[c]))]
            /\ UNCHANGED <<cl_state, cl_call>>
    /\ UNCHANGED <<cl_buffer, cl_start_ret>>

\* stop() returning the transcript and discarding the buffer with the session
StopDoneDiscards(c) ==
    /\ cl_state[c] = "Stopping"
    /\ cl_call[c] = "stop"
    /\ cl_state' = [cl_state EXCEPT ![c] = "Closed"]
    /\ cl_call' = [cl_call EXCEPT ![c] = "none"]
    /\ cl_stop_rets' = [cl_stop_rets EXCEPT ![c] = Append(@, Transcript(cl_buffer[c]))]
    /\ cl_buffer' = [cl_buffer EXCEPT ![c] = <<>>]
    /\ UNCHANGED cl_start_ret

\* stop() returning only once a result has come in
StopDoneAwaitsResult(c) ==
    /\ cl_state[c] = "Stopping"
    /\ cl_call[c] = "stop"
    /\ cl_buffer[c] # <<>>
    /\ cl_state' = [cl_state EXCEPT ![c] = "Closed"]
    /\ cl_call' = [cl_call EXCEPT ![c] = "none"]
    /\ cl_stop_rets' = [cl_stop_rets EXCEPT ![c] = Append(@, Transcript(cl_buffer[c]))]
    /\ UNCHANGED <<cl_buffer, cl_start_ret>>

\* the in-flight results are in, or the wait timed out: the connection is
\* closed and stop() returns the transcript
StopDone(c) ==
    /\ cl_state[c] = "Stopping"
    /\ cl_call[c] = "stop"
    /\ cl_state' = [cl_state EXCEPT ![c] = "Closed"]
    /\ cl_call' = [cl_call EXCEPT ![c] = "none"]
    /\ cl_stop_rets' = [cl_stop_rets EXCEPT ![c] = Append(@, Transcript(cl_buffer[c]))]
    /\ UNCHANGED <<cl_buffer, cl_start_ret>>

\* ------------------- SpecClient: client objects driven through their methods
\* two objects, each started, fed, dropped and stopped in any order
InitClient ==
    /\ pc = "client"
    /\ text_segments = <<>>
    /\ speaker_segments = <<>>
    /\ result = <<>>
    /\ BatchIdle
    /\ ClientsIdle
    /\ AppIdle
    /\ RestIdle
    /\ dg_key = TRUE

OthersUnchanged == UNCHANGED <<alignVars, batchVars, appVars, restVars>>

HarnessClients == {1, 2}

ClientStart == (\E c \in HarnessClients : StartCall(c)) /\ OthersUnchanged
ClientConnectOk == (\E c \in HarnessClients : ConnectOk(c)) /\ OthersUnchanged
ClientConnectFail == (\E c \in HarnessClients : ConnectFail(c)) /\ OthersUnchanged
ClientResult ==
    (\E c \in HarnessClients : \E u \in Utterances : ResultArrives(c, u)) /\ OthersUnchanged
ClientDrop == (\E c \in HarnessClients : ConnectionDrop(c)) /\ OthersUnchanged
ClientStop == (\E c \in HarnessClients : StopCall(c)) /\ OthersUnchanged
ClientStopDone == (\E c \in HarnessClients : StopDone(c)) /\ OthersUnchanged

NextClient ==
    \/ ClientStart
    \/ ClientConnectOk
    \/ ClientConnectFail
    \/ ClientResult
    \/ ClientDrop
    \/ ClientStop
    \/ ClientStopDone

SpecClient == InitClient /\ [][NextClient]_vars

\* ---------------------------------------------------------- audio capturer
\* outcomes of capturer.start_recording with the device held by any session
\* or free
StartRecordingOutcomesNoBusyCheck(active) == {"ok", "DeviceOpenError"}

\* outcomes of capturer.start_recording: DeviceOpenError at once when a
\* session holds the device, else the device opens or fails to open
StartRecordingOutcomes(active) ==
    IF active # {} THEN {"DeviceOpenError"} ELSE {"ok", "DeviceOpenError"}

\* the sessions holding the device after start_recording for session s
ActiveAfterStart(active, s, outcome) ==
    IF outcome = "ok" THEN active \cup {s} ELSE active

\* ------------------------------ SpecLive: the live-session tab of the app
InitLive ==
    /\ pc = "live"
    /\ text_segments = <<>>
    /\ speaker_segments = <<>>
    /\ result = <<>>
    /\ BatchIdle
    /\ ClientsIdle
    /\ AppIdle
    /\ RestIdle
    /\ dg_key \in BOOLEAN

\* Start Session pressed while a recording is shown as running
StartSessionWhileRecording ==
    /\ pc = "live"
    /\ ui_pc = "idle"
    /\ dg_key
    /\ n_created < MaxSessions
    /\ n_created' = n_created + 1
    /\ transcriber' = n_created + 1
    /\ StartCall(n_created + 1)
    /\ ui_pc' = "starting"
    /\ UNCHANGED <<dg_key, is_recording, live_transcriber, recording_session_path,
                   completed_session_info, active_sessions, start_recording_ret,
                   saved_transcripts>>
    /\ UNCHANGED <<alignVars, batchVars, restVars>>

\* Start Session pressed (shown only when is_recording is False, enabled by
\* can_start): the session folder is created, a transcriber is constructed
\* and its start() is called
StartSession ==
    /\ pc = "live"
    /\ ui_pc = "idle"
    /\ ~is_recording
    /\ dg_key
    /\ n_created < MaxSessions
    /\ n_created' = n_created + 1
    /\ transcriber' = n_created + 1
    /\ StartCall(n_created + 1)
    /\ ui_pc' = "starting"
    /\ UNCHANGED <<dg_key, is_recording, live_transcriber, recording_session_path,
                   completed_session_info, active_sessions, start_recording_ret,
                   saved_transcripts>>
    /\ UNCHANGED <<alignVars, batchVars, restVars>>

\* the handler going on to record whatever start() returned
StartSessionRecordingUnchecked ==
    /\ ui_pc = "starting"
    /\ cl_call[transcriber] = "none"
    /\ "ok" \in StartRecordingOutcomes(active_sessions)
    /\ live_transcriber' = transcriber
    /\ recording_session_path' = transcriber
    /\ completed_session_info' = 0
    /\ active_sessions' = ActiveAfterStart(active_sessions, transcriber, "ok")
    /\ start_recording_ret' = "ok"
    /\ is_recording' = TRUE
    /\ ui_pc' = "idle"
    /\ UNCHANGED <<transcriber, n_created, dg_key, saved_transcripts>>
    /\ UNCHANGED <<alignVars, batchVars, clientVars, restVars>>

\* start() returned True: the transcriber and the session path are stored,
\* capturer.start_recording returns and is_recording is set
StartSessionRecording ==
    /\ ui_pc = "starting"
    /\ cl_call[transcriber] = "none"
    /\ cl_start_ret[transcriber] = <<TRUE>>
    /\ "ok" \in StartRecordingOutcomes(active_sessions)
    /\ live_transcriber' = transcriber
    /\ recording_session_path' = transcriber
    /\ completed_session_info' = 0
    /\ active_sessions' = ActiveAfterStart(active_sessions, transcriber, "ok")
    /\ start_recording_ret' = "ok"
    /\ is_recording' = TRUE
    /\ ui_pc' = "idle"
    /\ UNCHANGED <<transcriber, n_created, dg_key, saved_transcripts>>
    /\ UNCHANGED <<alignVars, batchVars, clientVars, restVars>>

\* start() returned True: the transcriber and the session path are stored,
\* capturer.start_recording raises and the exception ends the handler
StartSessionDeviceError ==
    /\ ui_pc = "starting"
    /\ cl_call[transcriber] = "none"
    /\ cl_start_ret[transcriber] = <<TRUE>>
    /\ "DeviceOpenError" \in StartRecordingOutcomes(active_sessions)
    /\ live_transcriber' = transcriber
    /\ recording_session_path' = transcriber
    /\ completed_session_info' = 0
    /\ active_sessions' = ActiveAfterStart(active_sessions, transcriber, "DeviceOpenError")
    /\ start_recording_ret' = "DeviceOpenError"
    /\ ui_pc' = "idle"
    /\ UNCHANGED <<transcriber, n_created, dg_key, is_recording, saved_transcripts>>
    /\ UNCHANGED <<alignVars, batchVars, clientVars, restVars>>

\* start() returned False: only the error message is shown
StartSessionRefused ==
    /\ ui_pc = "starting"
    /\ cl_call[transcriber] = "none"
    /\ cl_start_ret[transcriber] = <<FALSE>>
    /\ ui_pc' = "idle"
    /\ UNCHANGED <<transcriber, n_created, dg_key, is_recording, live_transcriber,
                   recording_session_path, completed_session_info, active_sessions,
                   start_recording_ret, saved_transcripts>>
    /\ UNCHANGED <<alignVars, batchVars, clientVars, restVars>>

\* End Session calling stop() of the live transcriber with the capture
\* still running
EndSessionStopsTranscriberFirst ==
    /\ pc = "live"
    /\ ui_pc = "idle"
    /\ is_recording
    /\ is_recording' = FALSE
    /\ IF live_transcriber # 0
       THEN /\ StopCall(live_transcriber)
            /\ ui_pc' = "ending"
            /\ UNCHANGED completed_session_info
       ELSE /\ completed_session_info' = 0
            /\ UNCHANGED <<clientVars, ui_pc>>
    /\ UNCHANGED <<transcriber, n_created, dg_key, live_transcriber, active_sessions,
                   recording_session_path, start_recording_ret, saved_transcripts>>
    /\ UNCHANGED <<alignVars, batchVars, restVars>>

\* End Session pressed (shown only when is_recording is True): the capture is
\* stopped, is_recording cleared and stop() of the live transcriber called
EndSession ==
    /\ pc = "live"
    /\ ui_pc = "idle"
    /\ is_recording
    /\ active_sessions' = {}
    /\ is_recording' = FALSE
    /\ IF live_transcriber # 0
       THEN /\ StopCall(live_transcriber)
            /\ ui_pc' = "ending"
            /\ UNCHANGED completed_session_info
       ELSE /\ completed_session_info' = 0
            /\ UNCHANGED <<clientVars, ui_pc>>
    /\ UNCHANGED <<transcriber, n_created, dg_key, live_transcriber,
                   recording_session_path, start_recording_ret, saved_transcripts>>
    /\ UNCHANGED <<alignVars, batchVars, restVars>>

\* the rest of the handler without the save_transcription call
EndSessionFinishNoSave ==
    /\ ui_pc = "ending"
    /\ cl_call[live_transcriber] = "none"
    /\ completed_session_info' = 0
    /\ live_transcriber' = 0
    /\ recording_session_path' = 0
    /\ ui_pc' = "idle"
    /\ UNCHANGED <<transcriber, n_created, dg_key, is_recording, active_sessions,
                   start_recording_ret, saved_transcripts>>
    /\ UNCHANGED <<alignVars, batchVars, clientVars, restVars>>

\* stop() returned: live_transcriber is cleared, a non-empty transcript is
\* saved to the session folder, recording_session_path is cleared
EndSessionFinish ==
    /\ ui_pc = "ending"
    /\ cl_call[live_transcriber] = "none"
    /\ LET transcript == cl_stop_rets[live_transcriber][Len(cl_stop_rets[live_transcriber])]
       IN IF transcript # <<>> /\ recording_session_path # 0
          THEN /\ saved_transcripts' =
                      [saved_transcripts EXCEPT ![recording_session_path] = <<transcript>>]
               /\ completed_session_info' = recording_session_path
          ELSE /\ completed_session_info' = 0
               /\ UNCHANGED saved_transcripts
    /\ live_transcriber' = 0
    /\ recording_session_path' = 0
    /\ ui_pc' = "idle"
    /\ UNCHANGED <<transcriber, n_created, dg_key, is_recording, active_sessions,
                   start_recording_ret>>
    /\ UNCHANGED <<alignVars, batchVars, clientVars, restVars>>

\* start_recording is attempted while a capture session is active: it fails
\* at once and the active session is left as it is
SecondStartAttempt ==
    /\ pc = "live"
    /\ active_sessions # {}
    /\ \E s \in ClientIds \ active_sessions :
       \E outcome \in StartRecordingOutcomes(active_sessions) :
           /\ active_sessions' = ActiveAfterStart(active_sessions, s, outcome)
           /\ start_recording_ret' = outcome
    /\ UNCHANGED <<ui_pc, transcriber, n_created, dg_key, is_recording, live_transcriber,
                   recording_session_path, completed_session_info, saved_transcripts>>
    /\ UNCHANGED <<alignVars, batchVars, clientVars, restVars>>

AppUnchanged == UNCHANGED <<alignVars, batchVars, appVars, restVars>>

\* the service and the network, for every transcriber constructed so far
LiveConnectOk == pc = "live" /\ (\E c \in 1..n_created : ConnectOk(c)) /\ AppUnchanged
LiveConnectFail == pc = "live" /\ (\E c \in 1..n_created : ConnectFail(c)) /\ AppUnchanged
LiveResult ==
    pc = "live" /\ (\E c \in 1..n_created : \E u \in Utterances : ResultArrives(c, u)) /\ AppUnchanged
LiveDrop == pc = "live" /\ (\E c \in 1..n_created : ConnectionDrop(c)) /\ AppUnchanged
LiveStopDone == pc = "live" /\ (\E c \in 1..n_created : StopDone(c)) /\ AppUnchanged

NextLive ==
    \/ StartSession
    \/ StartSessionRecording
    \/ StartSessionDeviceError
    \/ StartSessionRefused
    \/ EndSession
    \/ EndSessionFinish
    \/ SecondStartAttempt
    \/ LiveConnectOk
    \/ LiveConnectFail
    \/ LiveResult
    \/ LiveDrop
    \/ LiveStopDone

SpecLive == InitLive /\ [][NextLive]_vars

\* The wait inside stop() is bounded by a timeout, so a client in Stopping
\* is closed sooner or later; the handler that called stop() goes on when
\* the call returns.  Results and connection errors may or may not come.
SpecLiveFair == SpecLive /\ WF_vars(LiveStopDone) /\ WF_vars(EndSessionFinish)

\* ------------------- SpecChunks: one capture session and its two consumers
\* The capture context hands every delivered block to the file writer and to
\* on_chunk, which the app binds to transcriber.send_audio; the sending
\* context of the streaming client empties the outbound queue.
AllOtherUnchanged ==
    UNCHANGED <<alignVars, batchVars, clientVars, appVars, uploadVars, cloudVars, engineVars,
                convVars, dgVars, verifyVars, tabVars>>

InitChunks ==
    /\ pc = "chunks"
    /\ text_segments = <<>>
    /\ speaker_segments = <<>>
    /\ result = <<>>
    /\ BatchIdle
    /\ ClientsIdle
    /\ AppIdle
    /\ RestIdle
    /\ dg_key = TRUE

\* capturer.start_recording(..., on_audio_chunk=transcriber.send_audio)
StartRecording ==
    /\ pc = "chunks"
    /\ ch_session = "none"
    /\ ch_session' = "recording"
    /\ UNCHANGED <<ch_delivered, ch_pending, ch_file, ch_on_chunk, ch_queue, ch_sent>>
    /\ AllOtherUnchanged

\* the device delivers the next block; the previous one has been consumed
DeliverChunk ==
    /\ ch_session = "recording"
    /\ ch_pending = {}
    /\ ch_delivered < MaxChunks
    /\ ch_delivered' = ch_delivered + 1
    /\ ch_pending' = {"write", "on_chunk"}
    /\ UNCHANGED <<ch_session, ch_file, ch_on_chunk, ch_queue, ch_sent>>
    /\ AllOtherUnchanged

\* the file writer appends the current block to output_path
WriteChunk ==
    /\ "write" \in ch_pending
    /\ ch_file' = Append(ch_file, ch_delivered)
    /\ ch_pending' = ch_pending \ {"write"}
    /\ UNCHANGED <<ch_session, ch_delivered, ch_on_chunk, ch_queue, ch_sent>>
    /\ AllOtherUnchanged

\* send_audio putting the block at the head of the queue
SendAudioAtHead ==
    /\ "on_chunk" \in ch_pending
    /\ ch_on_chunk' = Append(ch_on_chunk, ch_delivered)
    /\ ch_queue' = <<ch_delivered>> \o ch_queue
    /\ ch_pending' = ch_pending \ {"on_chunk"}
    /\ UNCHANGED <<ch_session, ch_delivered, ch_file, ch_sent>>
    /\ AllOtherUnchanged

\* on_chunk(current block), i.e. send_audio: the block is enqueued and the
\* call returns at once
SendAudio ==
    /\ "on_chunk" \in ch_pending
    /\ ch_on_chunk' = Append(ch_on_chunk, ch_delivered)
    /\ ch_queue' = Append(ch_queue, ch_delivered)
    /\ ch_pending' = ch_pending \ {"on_chunk"}
    /\ UNCHANGED <<ch_session, ch_delivered, ch_file, ch_sent>>
    /\ AllOtherUnchanged

\* the sending context takes the oldest queued block and transmits it
TransmitChunk ==
    /\ ch_queue # <<>>
    /\ ch_sent' = Append(ch_sent, Head(ch_queue))
    /\ ch_queue' = Tail(ch_queue)
    /\ UNCHANGED <<ch_session, ch_delivered, ch_pending, ch_file, ch_on_chunk>>
    /\ AllOtherUnchanged

\* capturer.stop_recording(): the stream is closed once the current block is
\* consumed, the file is flushed and closed
StopRecording ==
    /\ ch_session = "recording"
    /\ ch_pending = {}
    /\ ch_session' = "stopped"
    /\ UNCHANGED <<ch_delivered, ch_pending, ch_file, ch_on_chunk, ch_queue, ch_sent>>
    /\ AllOtherUnchanged

NextChunks ==
    \/ StartRecording
    \/ DeliverChunk
    \/ WriteChunk
    \/ SendAudio
    \/ TransmitChunk
    \/ StopRecording

SpecChunks == InitChunks /\ [][NextChunks]_vars

\* ------------------------- SpecUpload: the Transcribe handler of Tab 1
\* One run of the handler is one step: the calls inside its try block up to
\* the one that raises, then the except clause, which only shows a message.
UploadUnchanged ==
    UNCHANGED <<alignVars, batchVars, clientVars, appVars, chunkVars, cloudVars, engineVars,
                convVars, dgVars, verifyVars, tabVars>>

InitUpload ==
    /\ pc = "upload"
    /\ text_segments = <<>>
    /\ speaker_segments = <<>>
    /\ result = <<>>
    /\ BatchIdle
    /\ ClientsIdle
    /\ AppIdle
    /\ RestIdle
    /\ dg_key \in BOOLEAN

Methods == {"Deepgram", "Local"}
Raised == {"FileNotFoundError", "ValueError", "RuntimeError", "Exception"}
\* the text a transcription returns
UploadTexts == {<<>>, FormatLine(Speaker00, <<"a">>)}

\* the audio files a run leaves in its folder up to the transcription call:
\* the uploaded file and, for a WAV sent to Deepgram, the MP3 made from it
AudioFiles(method, is_wav) ==
    IF method = "Deepgram" /\ is_wav THEN {{"audio"}, {"audio", "mp3"}} ELSE {{"audio"}}

\* the audio files in the folder once the transcription call has returned
AudioFilesDone(method, is_wav) ==
    IF method = "Deepgram" /\ is_wav THEN {"audio", "mp3"} ELSE {"audio"}

\* audio_file.size == 0: only the message
UploadEmptyFile ==
    /\ pc = "upload"
    /\ up_last' = <<"empty", "none">>
    /\ UNCHANGED <<up_folders, up_files, up_transcripts, transcription_result,
                   transcription_session_path, transcription_session_folder>>
    /\ UploadUnchanged

\* create_session_folder_for_transcription raises: nothing was created
UploadFolderFails ==
    /\ pc = "upload"
    /\ \E exc \in Raised : up_last' = <<"create_session_folder", exc>>
    /\ UNCHANGED <<up_folders, up_files, up_transcripts, transcription_result,
                   transcription_session_path, transcription_session_folder>>
    /\ UploadUnchanged

\* save_audio_file raises: the folder exists, the file may have been opened
UploadAudioSaveFails ==
    /\ pc = "upload"
    /\ up_folders < MaxUploads
    /\ up_folders' = up_folders + 1
    /\ \E files \in {{}, {"audio"}} :
           up_files' = [up_files EXCEPT ![up_folders + 1] = files]
    /\ \E exc \in Raised : up_last' = <<"save_audio_file", exc>>
    /\ UNCHANGED <<up_transcripts, transcription_result,
                   transcription_session_path, transcription_session_folder>>
    /\ UploadUnchanged

\* the except clause removing the folder of the failed run
UploadTranscribeFailsCleansUp ==
    /\ pc = "upload"
    /\ up_folders < MaxUploads
    /\ \E exc \in Raised : up_last' = <<"transcribe", exc>>
    /\ UNCHANGED <<up_folders, up_files, up_transcripts, transcription_result,
                   transcription_session_path, transcription_session_folder>>
    /\ UploadUnchanged

\* transcribe_with_deepgram, transcribe_with_diarization or transcribe_audio
\* raises: the folder and the audio file stay, nothing else is done
UploadTranscribeFails ==
    /\ pc = "upload"
    /\ up_folders < MaxUploads
    /\ up_folders' = up_folders + 1
    /\ \E method \in Methods : \E is_wav \in BOOLEAN :
       \E files \in AudioFiles(method, is_wav) :
           up_files' = [up_files EXCEPT ![up_folders + 1] = files]
    /\ \E exc \in Raised : up_last' = <<"transcribe", exc>>
    /\ UNCHANGED <<up_transcripts, transcription_result,
                   transcription_session_path, transcription_session_folder>>
    /\ UploadUnchanged

\* save_transcription raises: the file may have been opened
UploadSaveFails ==
    /\ pc = "upload"
    /\ up_folders < MaxUploads
    /\ up_folders' = up_folders + 1
    /\ \E method \in Methods : \E is_wav \in BOOLEAN :
           up_files' = [up_files EXCEPT ![up_folders + 1] = AudioFilesDone(method, is_wav)]
    /\ \E partial \in {<<>>, <<<<>>>>} :
           up_transcripts' = [up_transcripts EXCEPT ![up_folders + 1] = partial]
    /\ \E exc \in Raised : up_last' = <<"save_transcription", exc>>
    /\ UNCHANGED <<transcription_result, transcription_session_path,
                   transcription_session_folder>>
    /\ UploadUnchanged

\* the whole try block: folder, audio file, transcription, transcription.txt,
\* then the three session-state fields
UploadOk ==
    /\ pc = "upload"
    /\ up_folders < MaxUploads
    /\ up_folders' = up_folders + 1
    /\ \E method \in Methods : \E is_wav \in BOOLEAN :
           up_files' = [up_files EXCEPT ![up_folders + 1] = AudioFilesDone(method, is_wav)]
    /\ \E transcription_text \in UploadTexts :
           /\ up_transcripts' = [up_transcripts EXCEPT ![up_folders + 1] = <<transcription_text>>]
           /\ transcription_result' = <<transcription_text>>
    /\ transcription_session_path' = up_folders + 1
    /\ transcription_session_folder' = up_folders + 1
    /\ up_last' = <<"ok", "none">>
    /\ UploadUnchanged

\* sidebar: Clear Transcription
ClearTranscription ==
    /\ pc = "upload"
    /\ transcription_result' = <<>>
    /\ transcription_session_path' = 0
    /\ transcription_session_folder' = 0
    /\ up_last' = <<"cleared", "none">>
    /\ UNCHANGED <<up_folders, up_files, up_transcripts>>
    /\ UploadUnchanged

NextUpload ==
    \/ UploadEmptyFile
    \/ UploadFolderFails
    \/ UploadAudioSaveFails
    \/ UploadTranscribeFails
    \/ UploadSaveFails
    \/ UploadOk
    \/ ClearTranscription

SpecUpload == InitUpload /\ [][NextUpload]_vars

\* ------------------------------------- format_diarized_transcript (cloud)
NoTranscription ==
    <<"N", "o", " ", "t", "r", "a", "n", "s", "c", "r", "i", "p", "t", "i", "o", "n", " ",
      "a", "v", "a", "i", "l", "a", "b", "l", "e">>

Whitespace == {" ", "\n"}

\* str.strip()
RECURSIVE LStrip(_)
LStrip(s) == IF s # <<>> /\ Head(s) \in Whitespace THEN LStrip(Tail(s)) ELSE s

RECURSIVE RStrip(_)
RStrip(s) ==
    IF s # <<>> /\ s[Len(s)] \in Whitespace THEN RStrip(SubSeq(s, 1, Len(s) - 1)) ELSE s

Strip(s) == RStrip(LStrip(s))

Digit(d) == <<"0", "1", "2", "3", "4", "5", "6", "7", "8", "9">>[d + 1]

\* f"Speaker {speaker_num:02d}" for 0 <= speaker_num < 100
SpeakerLabel(speaker_num) ==
    <<"S", "p", "e", "a", "k", "e", "r", " ", Digit(speaker_num \div 10), Digit(speaker_num % 10)>>

\* the loop over results.utterances keeping the utterances without text
RECURSIVE UtteranceLinesKeepEmpty(_, _, _)
UtteranceLinesKeepEmpty(utterances, i, lines) ==
    IF i > Len(utterances) THEN lines
    ELSE LET utterance == utterances[i]
             speaker_num == IF utterance.speaker # <<>> THEN utterance.speaker[1] ELSE 0
             speaker == SpeakerLabel(speaker_num)
             text == IF Truthy(utterance.transcript) THEN Strip(utterance.transcript[1]) ELSE <<>>
         IN UtteranceLinesKeepEmpty(utterances, i + 1, Append(lines, speaker \o COLON_SP \o text))

\* the loop over results.utterances from index i on
RECURSIVE UtteranceLines(_, _, _)
UtteranceLines(utterances, i, lines) ==
    IF i > Len(utterances) THEN lines
    ELSE LET utterance == utterances[i]
             speaker_num == IF utterance.speaker # <<>> THEN utterance.speaker[1] ELSE 0
             speaker == SpeakerLabel(speaker_num)
             text == IF Truthy(utterance.transcript) THEN Strip(utterance.transcript[1]) ELSE <<>>
         IN UtteranceLines(utterances, i + 1,
                           IF text # <<>> THEN Append(lines, speaker \o COLON_SP \o text)
                           ELSE lines)

\* the flush guarded by "if current_speaker is not None and current_text"
WordFlush(lines, current_speaker, current_text) ==
    IF current_speaker # <<>> /\ current_text # <<>>
    THEN Append(lines, SpeakerLabel(current_speaker[1]) \o COLON_SP \o Join(current_text, SP))
    ELSE lines

\* the loop over alt.words from index i on, then the last flush
RECURSIVE WordLines(_, _, _, _, _)
WordLines(words, i, lines, current_speaker, current_text) ==
    IF i > Len(words) THEN WordFlush(lines, current_speaker, current_text)
    ELSE LET word == words[i]
             speaker == word.speaker
         IN IF speaker # current_speaker
            THEN WordLines(words, i + 1, WordFlush(lines, current_speaker, current_text),
                           speaker, <<word.word>>)
            ELSE WordLines(words, i + 1, lines, current_speaker,
                           Append(current_text, word.word))

format_diarized_transcript(results) ==
    IF results.utterances # <<>>
    THEN Join(UtteranceLines(results.utterances, 1, <<>>), NLNL)
    ELSE IF results.channels # <<>> /\ results.channels[1].alternatives # <<>>
    THEN LET alt == results.channels[1].alternatives[1]
         IN IF alt.words # <<>>
            THEN Join(WordLines(alt.words, 1, <<>>, <<>>, <<>>), NLNL)
            ELSE IF Truthy(alt.transcript) THEN alt.transcript[1] ELSE NoTranscription
    ELSE NoTranscription

\* inputs: what a Deepgram response can hold
CloudSpeakers == {<<>>, <<1>>, <<10>>}
CloudTranscripts == {<<>>, <<<<" ">>>>, <<<<"a">>>>, <<<<" ", "b">>>>}
CloudWords == {<<"a">>, <<"b">>}
AltTranscripts == {<<>>, <<<<"a", " ", "b">>>>}
Utterance == {[speaker |-> sp, transcript |-> t] : sp \in CloudSpeakers, t \in CloudTranscripts}
Word == {[word |-> w, speaker |-> sp] : w \in CloudWords, sp \in CloudSpeakers}
UtteranceSeqs == UNION {[1..n -> Utterance] : n \in 1..MaxItems}
WordSeqs == UNION {[1..n -> Word] : n \in 0..MaxItems}
ChannelSeqs ==
    {<<>>, <<[alternatives |-> <<>>]>>}
        \cup {<<[alternatives |-> <<[words |-> w, transcript |-> t]>>]>> :
                 w \in WordSeqs, t \in AltTranscripts}
\* the channels are not read when there are utterances
Responses ==
    {[utterances |-> u, channels |-> <<>>] : u \in UtteranceSeqs}
        \cup {[utterances |-> <<>>, channels |-> c] : c \in ChannelSeqs}

\* --------------------------------- SpecCloud: format_diarized_transcript
InitCloud ==
    /\ pc = "cloud"
    /\ text_segments = <<>>
    /\ speaker_segments = <<>>
    /\ result = <<>>
    /\ BatchIdle
    /\ ClientsIdle
    /\ AppIdle
    /\ ChunksIdle
    /\ UploadIdle
    /\ EngineIdle
    /\ DeepgramIdle
    /\ TabIdle
    /\ VerifyIdle
    /\ response \in Responses
    /\ formatted = <<>>
    /\ dg_key = TRUE

CallFormat ==
    /\ pc = "cloud"
    /\ formatted = <<>>
    /\ formatted' = <<format_diarized_transcript(response)>>
    /\ UNCHANGED response
    /\ UNCHANGED <<alignVars, batchVars, clientVars, appVars, chunkVars, uploadVars, engineVars,
                   convVars, dgVars, verifyVars, tabVars>>

NextCloud == CallFormat

SpecCloud == InitCloud /\ [][NextCloud]_vars

\* ------------- SpecLabelled: both producers of labelled transcripts
InitLabelled == InitAlign \/ InitCloud

NextLabelled ==
    \/ CallAlign
    \/ CallFormat

SpecLabelled == InitLabelled /\ [][NextLabelled]_vars

\* ------------- SpecEngine: the segment lists the two recognisers return
\* seg.get(key, 0) on an optional offset
GetOr0(opt) == IF opt = <<>> THEN 0 ELSE opt[1]

\* transcribe_with_parakeet: one segment per sentence, in the order given
ParakeetSegments(sentences) ==
    [k \in 1..Len(sentences) |->
        [text |-> Strip(sentences[k].text),
         start |-> sentences[k].start[1],
         end |-> sentences[k].end[1]]]

\* transcribe_with_voxtral: one segment per item of result["segments"], in
\* the order given; a missing "start" or "end" is 0
VoxtralSegments(segs) ==
    [k \in 1..Len(segs) |->
        [text |-> Strip(segs[k].text),
         start |-> GetOr0(segs[k].start),
         end |-> GetOr0(segs[k].end)]]

\* what a recogniser hands back: sentences in the order spoken, one after
\* the other, texts not yet stripped; in a Voxtral response an item may
\* come without "start" or "end"
RawTexts == {<<"a">>, <<" ", "b">>}
RawSentence(optional) ==
    {[text |-> t, start |-> st, end |-> en] :
        t \in RawTexts,
        st \in {<<n>> : n \in 0..MaxTime} \cup (IF optional THEN {<<>>} ELSE {}),
        en \in {<<n>> : n \in 0..MaxTime} \cup (IF optional THEN {<<>>} ELSE {})}
WellTimed(seg) == seg.start # <<>> /\ seg.end # <<>> => seg.start[1] < seg.end[1]
InOrder(segs) ==
    \A i, j \in 1..Len(segs) :
        (i < j /\ segs[i].end # <<>> /\ segs[j].start # <<>>) => segs[i].end[1] <= segs[j].start[1]
RawSeqs(optional) ==
    UNION {{q \in [1..n -> RawSentence(optional)] :
               InOrder(q) /\ \A k \in 1..n : WellTimed(q[k])} : n \in 0..MaxSegs}

InitEngine ==
    /\ pc = "engine"
    /\ text_segments = <<>>
    /\ speaker_segments = <<>>
    /\ result = <<>>
    /\ BatchIdle
    /\ ClientsIdle
    /\ AppIdle
    /\ ChunksIdle
    /\ UploadIdle
    /\ CloudIdle
    /\ DeepgramIdle
    /\ TabIdle
    /\ VerifyIdle
    /\ dg_key = FALSE
    /\ engine \in {"parakeet", "voxtral"}
    /\ raw_segments \in RawSeqs(engine = "voxtral")
    /\ raw_text \in {<<<<"a">>>>} \cup (IF engine = "voxtral" THEN {<<>>} ELSE {})

\* the recogniser has answered: the function builds and returns its dict
TranscribeReturns ==
    /\ pc = "engine"
    /\ pc' = "returned"
    /\ text_segments' = IF engine = "parakeet" THEN ParakeetSegments(raw_segments)
                        ELSE VoxtralSegments(raw_segments)
    /\ full_text' = IF raw_text = <<>> THEN <<<<>>>> ELSE raw_text
    /\ UNCHANGED <<speaker_segments, result, hf_token, diar, had_diarization, final_text,
                   saved, error>>
    /\ UNCHANGED <<clientVars, appVars, chunkVars, uploadVars, cloudVars, engineVars,
                   convVars, dgVars, verifyVars, tabVars>>

NextEngine == TranscribeReturns

SpecEngine == InitEngine /\ [][NextEngine]_vars

\* ------------------------------------- SpecConvert: convert_wav_to_mp3
\* One recording, wav_path, and the MP3 next to it.  The file system stamps
\* a file with the clock at the time it is written.
FfmpegCodes == {0, 1}

\* the skip test with "not older" in place of "newer"
MP3IsNotOlder == mp3_mtime # <<>> /\ mp3_mtime[1] >= wav_mtime

\* mp3_path.exists() and mp3_path.stat().st_mtime > wav_path.stat().st_mtime
MP3IsNewer == mp3_mtime # <<>> /\ mp3_mtime[1] > wav_mtime

\* convert_wav_to_mp3(wav_path).  How FFmpeg ends is an input: started is
\* FALSE when the executable cannot be run, partial tells whether a failing
\* run left an output file behind.
ConvertWavToMp3(started, returncode, partial) ==
    /\ conv_calls < MaxCalls
    /\ conv_calls' = conv_calls + 1
    /\ conv_wav' = <<wav_mtime>>
    /\ IF MP3IsNewer
       THEN /\ conv_ran' = FALSE
            /\ conv_rc' = <<>>
            /\ conv_ret' = "mp3_path"
            /\ UNCHANGED mp3_mtime
       ELSE /\ conv_ran' = TRUE
            /\ IF ~started
               THEN /\ conv_rc' = <<>>
                    /\ conv_ret' = "FileNotFoundError"
                    /\ UNCHANGED mp3_mtime
               ELSE /\ conv_rc' = <<returncode>>
                    /\ conv_ret' = IF returncode # 0 THEN "RuntimeError" ELSE "mp3_path"
                    /\ mp3_mtime' = IF returncode = 0 \/ partial THEN <<now>> ELSE mp3_mtime
    /\ UNCHANGED <<now, wav_mtime>>

ConvertOthersUnchanged ==
    UNCHANGED <<alignVars, batchVars, clientVars, appVars, chunkVars, uploadVars, cloudVars,
                engineVars, verifyVars, tabVars>>

InitConvert ==
    /\ pc = "convert"
    /\ text_segments = <<>>
    /\ speaker_segments = <<>>
    /\ result = <<>>
    /\ BatchIdle
    /\ ClientsIdle
    /\ AppIdle
    /\ RestIdle
    /\ dg_key = TRUE

\* time passes
Tick ==
    /\ pc \in {"convert", "deepgram"}
    /\ now < MaxClock
    /\ now' = now + 1
    /\ UNCHANGED <<wav_mtime, mp3_mtime, conv_calls, conv_ran, conv_rc, conv_ret, conv_wav>>
    /\ UNCHANGED dgVars
    /\ ConvertOthersUnchanged

\* the recording is written again
WriteWav ==
    /\ pc \in {"convert", "deepgram"}
    /\ wav_mtime # now
    /\ wav_mtime' = now
    /\ UNCHANGED <<now, mp3_mtime, conv_calls, conv_ran, conv_rc, conv_ret, conv_wav>>
    /\ UNCHANGED dgVars
    /\ ConvertOthersUnchanged

CallConvert ==
    /\ pc = "convert"
    /\ \E started \in BOOLEAN, returncode \in FfmpegCodes, partial \in BOOLEAN :
           ConvertWavToMp3(started, returncode, partial)
    /\ UNCHANGED dgVars
    /\ ConvertOthersUnchanged

NextConvert ==
    \/ Tick
    \/ WriteWav
    \/ CallConvert

SpecConvert == InitConvert /\ [][NextConvert]_vars

\* ------------------------------- SpecDeepgram: transcribe_with_deepgram
\* what client.listen.v1.media.transcribe_file can raise: the exceptions of
\* the SDK and of its HTTP transport, which the function does not handle
SdkErrors == {"ApiError", "TimeoutException"}

\* the responses of the service
DeepgramAnswers ==
    {NoResponse}
        \cup {[utterances |-> <<[speaker |-> <<1>>, transcript |-> t]>>, channels |-> <<>>] :
                 t \in CloudTranscripts}

\* if progress_callback: progress_callback(progress, stage)
Progress(cb, progress, stage) ==
    IF cb THEN <<<<"progress_callback", progress, stage>>>> ELSE <<>>

Raise(exc) == [raised |-> exc, returned |-> <<>>]
Return(value) == [raised |-> "none", returned |-> <<value>>]

\* transcribe_with_deepgram(audio_path, progress_callback): is_wav is
\* audio_path.suffix.lower() == '.wav', cb is progress_callback is not None,
\* readable is whether open(upload_path) succeeds for a file that was not
\* converted, api is "ok" or what the request raises, answer is the response.
CallTranscribeWithDeepgram ==
    /\ pc = "deepgram"
    /\ \E is_wav \in BOOLEAN, cb \in BOOLEAN, started \in BOOLEAN, returncode \in FfmpegCodes,
          partial \in BOOLEAN, readable \in BOOLEAN, api \in {"ok"} \cup SdkErrors,
          answer \in DeepgramAnswers :
           IF ~dg_key
           THEN /\ dg_trace' = <<>>
                /\ dg_out' = Raise("RuntimeError")
                /\ UNCHANGED convVars
           ELSE /\ IF is_wav
                   THEN ConvertWavToMp3(started, returncode, partial)
                   ELSE UNCHANGED convVars
                /\ LET prepared == Progress(cb, 1, "preparing")
                           \o (IF is_wav
                               THEN Progress(cb, 2, "converting") \o <<<<"convert_wav_to_mp3">>>>
                               ELSE <<>>)
                       opened == prepared \o <<<<"DeepgramClient">>, <<"open">>>>
                       uploaded == opened \o Progress(cb, 4, "uploading")
                                       \o <<<<"transcribe_file">>>>
                   IN  IF is_wav /\ conv_ret' # "mp3_path"
                       THEN /\ dg_trace' = prepared
                            /\ dg_out' = Raise(conv_ret')
                       ELSE IF ~is_wav /\ ~readable
                       THEN /\ dg_trace' = opened
                            /\ dg_out' = Raise("FileNotFoundError")
                       ELSE IF api # "ok"
                       THEN /\ dg_trace' = uploaded
                            /\ dg_out' = Raise(api)
                       ELSE /\ dg_trace' = uploaded \o Progress(cb, 9, "formatting")
                                               \o <<<<"format_diarized_transcript">>>>
                                               \o Progress(cb, 10, "complete")
                            /\ dg_out' = Return(<<format_diarized_transcript(answer), TRUE>>)
    /\ ConvertOthersUnchanged

InitDeepgram ==
    /\ pc = "deepgram"
    /\ text_segments = <<>>
    /\ speaker_segments = <<>>
    /\ result = <<>>
    /\ BatchIdle
    /\ ClientsIdle
    /\ AppIdle
    /\ RestIdle
    /\ dg_key \in BOOLEAN

NextDeepgram ==
    \/ Tick
    \/ WriteWav
    \/ CallTranscribeWithDeepgram

SpecDeepgram == InitDeepgram /\ [][NextDeepgram]_vars

\* ------------------------------------ SpecVerify: verify_document_draft
\* A draft is given by the character counts the function takes from it:
\* len(content), and for a summary the lengths of the title line, of the
\* warm opening and of the four checked sections.
MAX_ATTEMPTS == 4

limits ==
    [total |-> <<2000, 2600>>, title |-> <<10, 40>>, warm_opening |-> <<100, 200>>,
     main_takeaways |-> <<600, 1100>>, tools |-> <<120, 350>>,
     achievements |-> <<250, 550>>, next_steps |-> <<100, 250>>]

Checked == DOMAIN limits

\* check_range(value, min_val, max_val) answers PASS
InRange(value, range) == range[1] <= value /\ value <= range[2]

\* the attempt limit applied only after MAX_ATTEMPTS
verify_document_draft_late(content, dtype, att) ==
    IF att > MAX_ATTEMPTS THEN "ATTEMPT LIMIT REACHED"
    ELSE IF dtype = "summary"
    THEN IF \A f \in Checked : InRange(content[f], limits[f])
         THEN "ALL SECTIONS PASS" ELSE "EDIT REQUIRED"
    ELSE IF dtype = "homework"
    THEN IF content.total <= 1800 THEN "DOCUMENT PASSES" ELSE "DOCUMENT FAILS"
    ELSE IF dtype = "draft"
    THEN IF content.total <= 2500 THEN "DOCUMENT PASSES" ELSE "DOCUMENT FAILS"
    ELSE "Unknown document type"

\* verify_document_draft(content, document_type, attempt): the heading of
\* the message it returns
verify_document_draft(content, dtype, att) ==
    IF att >= MAX_ATTEMPTS THEN "ATTEMPT LIMIT REACHED"
    ELSE IF dtype = "summary"
    THEN IF \A f \in Checked : InRange(content[f], limits[f])
         THEN "ALL SECTIONS PASS" ELSE "EDIT REQUIRED"
    ELSE IF dtype = "homework"
    THEN IF content.total <= 1800 THEN "DOCUMENT PASSES" ELSE "DOCUMENT FAILS"
    ELSE IF dtype = "draft"
    THEN IF content.total <= 2500 THEN "DOCUMENT PASSES" ELSE "DOCUMENT FAILS"
    ELSE "Unknown document type"

\* overshoot(chars_to_remove): int(chars_to_remove * 1.1)
overshoot(chars_to_remove) == (chars_to_remove * 11) \div 10

\* the instruction of one count, if it is out of its range
Instruction(content, f) ==
    IF content[f] < limits[f][1] THEN <<<<f, "ADD", limits[f][1] - content[f]>>>>
    ELSE IF content[f] > limits[f][2]
    THEN <<<<f, "REMOVE", overshoot(content[f] - limits[f][2])>>>>
    ELSE <<>>

\* verify_document_draft: the edit_instructions built after a failed
\* summary check (the list is not built otherwise)
EditInstructions(content, dtype, att) ==
    IF att < MAX_ATTEMPTS /\ dtype = "summary"
           /\ ~(\A f \in Checked : InRange(content[f], limits[f]))
    THEN Instruction(content, "total") \o Instruction(content, "warm_opening")
             \o Instruction(content, "main_takeaways") \o Instruction(content, "tools")
             \o Instruction(content, "achievements") \o Instruction(content, "next_steps")
    ELSE <<>>

\* a summary at the sweet spot of every range
SweetSpot ==
    [total |-> 2300, title |-> 25, warm_opening |-> 150, main_takeaways |-> 850,
     tools |-> 235, achievements |-> 400, next_steps |-> 175]

\* the counts around the ends of a range, and around the two total limits
Around(range) == {range[1] - 1, range[1], range[2], range[2] + 1}

Drafts ==
    {SweetSpot}
        \cup UNION {{[SweetSpot EXCEPT ![f] = n] : n \in Around(limits[f])} : f \in Checked}
        \cup {[SweetSpot EXCEPT !.total = n] : n \in {0, 1800, 1801, 2500, 2501}}

DocumentTypes == {"summary", "homework", "draft", "letter"}

Passes(r) == r \in {"ALL SECTIONS PASS", "DOCUMENT PASSES"}

VerifyOthersUnchanged ==
    UNCHANGED <<alignVars, batchVars, clientVars, appVars, chunkVars, uploadVars, cloudVars,
                engineVars, convVars, dgVars, tabVars>>

InitVerify ==
    /\ pc = "verify"
    /\ text_segments = <<>>
    /\ speaker_segments = <<>>
    /\ result = <<>>
    /\ BatchIdle
    /\ ClientsIdle
    /\ AppIdle
    /\ ChunksIdle
    /\ UploadIdle
    /\ CloudIdle
    /\ EngineIdle
    /\ DeepgramIdle
    /\ TabIdle
    /\ dg_key = TRUE
    /\ document_type \in DocumentTypes
    /\ draft \in Drafts
    /\ attempt \in 1..MaxAttempt
    /\ verifications = 0
    /\ reply = "none"
    /\ edit_instructions = <<>>
    /\ doc_saved = FALSE

\* the agent calls the tool with its current draft
VerifyDraft ==
    /\ pc = "verify"
    /\ ~doc_saved
    /\ reply = "none"
    /\ attempt <= MaxAttempt
    /\ reply' = verify_document_draft(draft, document_type, attempt)
    /\ edit_instructions' = EditInstructions(draft, document_type, attempt)
    /\ verifications' = verifications + 1
    /\ UNCHANGED <<document_type, draft, attempt, doc_saved>>
    /\ VerifyOthersUnchanged

\* after a failure the agent edits the draft and counts the attempt
EditDraft ==
    /\ pc = "verify"
    /\ ~doc_saved
    /\ reply \notin {"none", "ATTEMPT LIMIT REACHED"}
    /\ ~Passes(reply)
    /\ draft' \in Drafts
    /\ attempt' = attempt + 1
    /\ reply' = "none"
    /\ edit_instructions' = <<>>
    /\ UNCHANGED <<document_type, verifications, doc_saved>>
    /\ VerifyOthersUnchanged

\* on a pass or on the limit message the agent calls the save tool
SaveDocument ==
    /\ pc = "verify"
    /\ ~doc_saved
    /\ Passes(reply) \/ reply = "ATTEMPT LIMIT REACHED"
    /\ doc_saved' = TRUE
    /\ UNCHANGED <<document_type, draft, attempt, verifications, reply, edit_instructions>>
    /\ VerifyOthersUnchanged

NextVerify ==
    \/ VerifyDraft
    \/ EditDraft
    \/ SaveDocument

SpecVerify == InitVerify /\ [][NextVerify]_vars

\* ------------------------------------------------- reading a result back
MinOf(S) == CHOOSE x \in S : \A y \in S : x <= y

\* where "\n\n" occurs in s
BlankAt(s) == {i \in 1..(Len(s) - 1) : s[i] = "\n" /\ s[i + 1] = "\n"}

\* the occurrences a left-to-right split uses: each starts after the last
RECURSIVE Separators(_, _)
Separators(P, from) ==
    LET Q == {q \in P : q >= from}
    IN IF Q = {} THEN <<>> ELSE <<MinOf(Q)>> \o Separators(P, MinOf(Q) + 2)

\* s.split("\n\n") for a non-empty s; no lines for the empty string
Lines(s) ==
    IF s = <<>> THEN <<>>
    ELSE LET seps == Separators(BlankAt(s), 1)
             n == Len(seps)
         IN [k \in 1..(n + 1) |->
                SubSeq(s, IF k = 1 THEN 1 ELSE seps[k - 1] + 2,
                          IF k = n + 1 THEN Len(s) ELSE seps[k] - 1)]

RECURSIVE SortedSeq(_)
SortedSeq(S) == IF S = {} THEN <<>> ELSE <<MinOf(S)>> \o SortedSeq(S \ {MinOf(S)})

\* first indices of the maximal runs of equal neighbours of asg, ascending
RunStarts(asg) == SortedSeq({i \in 1..Len(asg) : i = 1 \/ asg[i] # asg[i - 1]})

\* last index of the run that starts at the k-th of the run starts, n items
RunEnd(starts, n, k) == IF k = Len(starts) THEN n ELSE starts[k + 1] - 1

\* one line per maximal run: the run's label, ": ", the run's texts spaced
RunLines(asg, texts) ==
    LET starts == RunStarts(asg)
    IN [k \in 1..Len(starts) |->
           asg[starts[k]] \o COLON_SP
               \o Join(SubSeq(texts, starts[k], RunEnd(starts, Len(asg), k)), SP)]

\* per-segment speaker assignment as the aligner computes it
Assigned == [k \in 1..Len(text_segments) |-> SpeakerAt(text_segments[k], speaker_segments)]

Called == result # <<>>

\* C1: with a non-empty interval list the output has exactly one line
\* "<speaker>: <texts joined by one space>" per maximal run of consecutive
\* segments assigned the same speaker, in order; the first segment always
\* starts a line, so there are as many lines as maximal runs.
C1_MergeRule ==
    (Called /\ speaker_segments # <<>>) =>
        LET lines == Lines(result[1])
            asg == Assigned
        IN /\ lines = RunLines(asg, SegTexts(text_segments))
           /\ Len(lines) = Len(RunStarts(asg))
           /\ (text_segments # <<>> => Len(lines) >= 1)

\* assignments A, A, B with at least one merge and one speaker change
C1_Witness ==
    /\ Called
    /\ Len(text_segments) = 3
    /\ Assigned[1] = Assigned[2]
    /\ Assigned[2] # Assigned[3]
    /\ \A k \in 1..3 : text_segments[k].text # <<>>
    /\ Len(Lines(result[1])) = 2

\* indices of the intervals whose closed range [start, end] holds the midpoint
ClosedMatches(text_seg, ivs) ==
    {j \in 1..Len(ivs) : 2 * ivs[j].start <= Midpoint2(text_seg)
                          /\ Midpoint2(text_seg) <= 2 * ivs[j].end}

\* indices of the intervals whose half-open range [start, end) holds it
HalfOpenMatches(text_seg, ivs) ==
    {j \in 1..Len(ivs) : 2 * ivs[j].start <= Midpoint2(text_seg)
                          /\ Midpoint2(text_seg) < 2 * ivs[j].end}

FirstOf(matches, ivs) == IF matches = {} THEN UNKNOWN ELSE ivs[MinOf(matches)].speaker

\* C2 (as amended): every segment is assigned the speaker of the first
\* interval, in the supplied order, whose closed range [start, end] contains
\* the segment's midpoint, and UNKNOWN when none does; a midpoint equal to an
\* interval's end is contained in that interval.
C2_ClosedFirstMatch ==
    (Called /\ speaker_segments # <<>>) =>
        LET asg == [k \in 1..Len(text_segments) |->
                        FirstOf(ClosedMatches(text_segments[k], speaker_segments),
                                speaker_segments)]
        IN Assigned = asg

\* C2 (as claimed): the same with the half-open range [start, end)
C2_HalfOpenFirstMatch ==
    (Called /\ speaker_segments # <<>>) =>
        LET asg == [k \in 1..Len(text_segments) |->
                        FirstOf(HalfOpenMatches(text_segments[k], speaker_segments),
                                speaker_segments)]
        IN Assigned = asg

\* a segment whose midpoint lies in two overlapping intervals with different
\* speakers, one whose midpoint is the end of its interval, one in no interval
C2_Witness ==
    /\ Called
    /\ \E k \in 1..Len(text_segments) :
           /\ Cardinality(ClosedMatches(text_segments[k], speaker_segments)) = 2
           /\ speaker_segments[1].speaker # speaker_segments[2].speaker
           /\ Assigned[k] = speaker_segments[1].speaker
    /\ \E k \in 1..Len(text_segments) :
           ClosedMatches(text_segments[k], speaker_segments) = {}
    /\ \E k \in 1..Len(text_segments), j \in 1..Len(speaker_segments) :
           /\ Midpoint2(text_segments[k]) = 2 * speaker_segments[j].end
           /\ Assigned[k] = speaker_segments[j].speaker

\* C3: with an empty interval list the result is exactly the segments' texts
\* in input order joined by single newlines; no label is added.
C3_Fallback ==
    (Called /\ speaker_segments = <<>>) =>
        /\ result[1] = Join(SegTexts(text_segments), NL)
        /\ \A k \in 1..Len(result[1]) : result[1][k] \in {"a", "b", "\n"}

C3_Witness ==
    /\ Called
    /\ speaker_segments = <<>>
    /\ Len(text_segments) = 3
    /\ text_segments[1].text # text_segments[2].text
    /\ Len(result[1]) = 5

\* C4 (as claimed): when diarization is unavailable or raises, its failure
\* never reaches the outer handler that aborts the run, the run goes on to
\* align and save, align (when called) receives the empty interval list, and
\* what is saved is the segments' texts joined by newlines.
C4_DiarizationNonFatal ==
    (diar \in {"failed", "skipped"}) =>
        /\ error # "diarize"
        /\ (pc = "step3" => ENABLED AlignStep)
        /\ (pc = "save" => ENABLED SaveResults)
        /\ speaker_segments = <<>>
        /\ ~had_diarization
        /\ (pc = "saved" =>
               saved[1].transcription = Join(SegTexts(text_segments), NL))

\* C4 (as amended): the same, where the saved text is the newline-joined
\* texts when the transcription returned at least one segment, and the
\* recogniser's full_text, saved as is, when it returned none.
C4_DiarizationNonFatalAmended ==
    (diar \in {"failed", "skipped"}) =>
        /\ error # "diarize"
        /\ (pc = "step3" => ENABLED AlignStep)
        /\ (pc = "save" => ENABLED SaveResults)
        /\ speaker_segments = <<>>
        /\ ~had_diarization
        /\ (pc = "saved" =>
               saved[1].transcription =
                   IF text_segments # <<>>
                   THEN Join(SegTexts(text_segments), NL)
                   ELSE full_text[1])

\* diarization raised, and the run saved the texts of three segments
C4_Witness ==
    /\ pc = "saved"
    /\ diar = "failed"
    /\ hf_token
    /\ Len(text_segments) = 3
    /\ saved[1].transcription = <<"a", "\n", "b", "\n", "a">>

\* ----------------------------------------------------- streaming client
Allowed ==
    {<<"Idle", "Connecting">>, <<"Connecting", "Streaming">>,
     <<"Streaming", "Stopping">>, <<"Stopping", "Closed">>}
        \cup {<<x, "Failed">> : x \in {"Connecting", "Streaming", "Stopping", "Closed"}}

\* C6: every state change of a streaming client is Idle->Connecting,
\* Connecting->Streaming, Streaming->Stopping, Stopping->Closed or X->Failed
\* for a non-Idle X; nothing leaves Failed and nothing enters Idle.
C6_StateMachine ==
    [][\A c \in ClientIds :
           cl_state'[c] # cl_state[c] => <<cl_state[c], cl_state'[c]>> \in Allowed]_vars

\* one client went all the way to Closed, the other failed while streaming,
\* and both were stopped afterwards
C6_Witness ==
    /\ cl_state[1] = "Closed"
    /\ cl_state[2] = "Failed"
    /\ cl_start_ret[2] = <<TRUE>>
    /\ Len(cl_stop_rets[1]) = 2
    /\ Len(cl_stop_rets[2]) = 1

\* C7: all the stop() calls of a client return the same transcript, and
\* stop() on a Closed client is accepted and returns the transcript of the
\* buffer as it was left.
C7_IdempotentStop ==
    \A c \in ClientIds :
        /\ \A i, j \in 1..Len(cl_stop_rets[c]) : cl_stop_rets[c][i] = cl_stop_rets[c][j]
        /\ (cl_state[c] = "Closed" =>
               /\ cl_stop_rets[c] # <<>>
               /\ cl_stop_rets[c][Len(cl_stop_rets[c])] = Transcript(cl_buffer[c])
               /\ (Len(cl_stop_rets[c]) < MaxStops => ENABLED StopCall(c)))

\* stop() was called twice on a Closed client with two utterances
C7_Witness ==
    /\ cl_state[1] = "Closed"
    /\ Len(cl_buffer[1]) = 2
    /\ Len(cl_stop_rets[1]) = 2
    /\ cl_stop_rets[1][2] # <<>>

IsPrefix(a, b) == Len(a) <= Len(b) /\ SubSeq(b, 1, Len(a)) = a

\* C8: a drop moves the client to Failed without touching the buffer, the
\* buffer only ever grows at its end, and every stop() of a Failed client
\* returns the whole buffer, which is not the empty string once an utterance
\* was appended.
C8_NoDataLossOnDrop ==
    /\ [](\A c \in ClientIds :
             cl_state[c] = "Failed" =>
                 \A i \in 1..Len(cl_stop_rets[c]) :
                     /\ cl_stop_rets[c][i] = Transcript(cl_buffer[c])
                     /\ (cl_buffer[c] # <<>> => cl_stop_rets[c][i] # <<>>))
    /\ [][\A c \in ClientIds :
              /\ IsPrefix(cl_buffer[c], cl_buffer'[c])
              /\ (cl_state'[c] = "Failed" => cl_buffer'[c] = cl_buffer[c])]_vars

\* the connection dropped after two utterances and stop() returned them
C8_Witness ==
    /\ cl_state[1] = "Failed"
    /\ cl_start_ret[1] = <<TRUE>>
    /\ Len(cl_buffer[1]) = 2
    /\ cl_buffer[1][1] # cl_buffer[1][2]
    /\ cl_stop_rets[1] = <<Transcript(cl_buffer[1])>>

\* ------------------------------------------------- live-session controller
\* C9: start() that failed has returned False with the client in Failed; the
\* capture is started and is_recording set only by the Start Session handler
\* after start() returned True; when start() returned False, is_recording,
\* live_transcriber, recording_session_path and the capture are left alone.
C9_StartResultChecked ==
    /\ [](\A c \in ClientIds : cl_start_ret[c] = <<FALSE>> => cl_state[c] = "Failed")
    /\ [][/\ ((is_recording' /\ ~is_recording) \/ active_sessions' \ active_sessions # {})
              => (ui_pc = "starting" /\ cl_start_ret[transcriber] = <<TRUE>>)
          /\ (ui_pc = "starting" /\ cl_call[transcriber] = "none"
                  /\ cl_start_ret[transcriber] = <<FALSE>>)
              => UNCHANGED <<is_recording, live_transcriber, recording_session_path,
                             active_sessions>>]_vars

\* a first attempt was refused by start() and left nothing behind, a second
\* one connected and is recording
C9_Witness ==
    /\ cl_start_ret[1] = <<FALSE>>
    /\ cl_start_ret[2] = <<TRUE>>
    /\ saved_transcripts[1] = <<>>
    /\ is_recording
    /\ live_transcriber = 2
    /\ recording_session_path = 2
    /\ active_sessions = {2}

\* C10: at most one capture session holds the device; the Start Session
\* handler runs, and start_recording is performed by it, only while
\* is_recording is False and no session is active; while a session is active
\* a start_recording attempt fails at once and the active session stays as
\* it is.
C10_SingleActiveSession ==
    /\ [](Cardinality(active_sessions) <= 1)
    /\ [][/\ (ui_pc = "idle" /\ ui_pc' = "starting")
              => (~is_recording /\ active_sessions = {})
          /\ (ui_pc = "starting" /\ ui_pc' = "idle" /\ cl_start_ret[transcriber] = <<TRUE>>)
              => (~is_recording /\ active_sessions = {})
          /\ (active_sessions # {} /\ active_sessions' # {})
              => /\ active_sessions' = active_sessions
                 /\ start_recording_ret' \in {start_recording_ret, "DeviceOpenError"}]_vars

\* a session is recording and a second start_recording was refused
C10_Witness ==
    /\ is_recording
    /\ active_sessions = {1}
    /\ live_transcriber = 1
    /\ cl_state[1] = "Streaming"
    /\ start_recording_ret = "DeviceOpenError"

\* ------------------------------------------------------------ chunk flow
CaptureOrder(n) == [k \in 1..n |-> k]

\* C11: in every interleaving of the capture context and the sending
\* context, on_chunk has been invoked with the delivered blocks in capture
\* order, the file holds them in that order, and what the client transmitted
\* followed by what is still queued is exactly what was handed to it, in that
\* order: nothing reordered, lost or duplicated, however far the file and the
\* network are apart.
C11_ChunkOrder ==
    /\ ch_on_chunk = CaptureOrder(Len(ch_on_chunk))
    /\ ch_file = CaptureOrder(Len(ch_file))
    /\ ch_sent \o ch_queue = ch_on_chunk
    /\ Len(ch_on_chunk) = ch_delivered - (IF "on_chunk" \in ch_pending THEN 1 ELSE 0)
    /\ Len(ch_file) = ch_delivered - (IF "write" \in ch_pending THEN 1 ELSE 0)

\* the network path lags the file by three blocks with two still queued
C11_Witness ==
    /\ ch_file = <<1, 2, 3, 4>>
    /\ ch_sent = <<1>>
    /\ ch_queue = <<2, 3>>
    /\ ch_pending = {"on_chunk"}

\* ---------------------------------------------------------------- stopping
\* C12: stop() is in progress only inside the End Session handler, which has
\* stopped the capture by then, and that handler always runs to its end, so
\* the stop() it called has returned, whether or not results or an
\* acknowledgement ever arrive from the service.
C12_StopTerminates ==
    /\ [](\A c \in ClientIds :
             cl_call[c] = "stop" => (ui_pc = "ending" /\ live_transcriber = c))
    /\ [](ui_pc = "ending" => (~is_recording /\ active_sessions = {}))
    /\ (ui_pc = "ending") ~> (ui_pc = "idle")

\* stop() returned on a session for which the service never delivered a
\* result, and the handler finished
C12_Witness ==
    /\ ui_pc = "idle"
    /\ cl_state[1] = "Closed"
    /\ cl_buffer[1] = <<>>
    /\ cl_stop_rets[1] = <<Transcript(<<>>)>>
    /\ ~is_recording
    /\ active_sessions = {}
    /\ live_transcriber = 0

\* ------------------------------------------------------- session end
\* the transcript the last stop() of client c returned
LastStopRet(c) == cl_stop_rets[c][Len(cl_stop_rets[c])]

\* the End Session handler going on after stop() returned
EndSessionCompletes == ui_pc = "ending" /\ ui_pc' = "idle"

\* C13 as stated: every End Session leaves the transcript stop() returned
\* in the session folder when live_transcriber and recording_session_path
\* are cleared.
C13_TranscriptPersisted ==
    [][EndSessionCompletes =>
          /\ live_transcriber' = 0
          /\ recording_session_path' = 0
          /\ recording_session_path # 0
          /\ saved_transcripts'[recording_session_path] = <<LastStopRet(live_transcriber)>>]_vars

\* C13, amended: a recording always has its transcriber and session folder;
\* the step of End Session that clears live_transcriber and
\* recording_session_path has written the transcript stop() returned to the
\* session folder and set completed_session_info when that transcript is not
\* empty, and has written nothing and cleared completed_session_info when it
\* is empty; no other step writes a transcript.
C13_TranscriptPersistedAmended ==
    /\ [](is_recording => (live_transcriber # 0 /\ recording_session_path = live_transcriber))
    /\ [][/\ EndSessionCompletes =>
              /\ live_transcriber' = 0
              /\ recording_session_path' = 0
              /\ recording_session_path # 0
              /\ IF LastStopRet(live_transcriber) # <<>>
                 THEN /\ saved_transcripts' =
                            [saved_transcripts EXCEPT ![recording_session_path] =
                                <<LastStopRet(live_transcriber)>>]
                      /\ completed_session_info' = recording_session_path
                 ELSE /\ saved_transcripts' = saved_transcripts
                      /\ completed_session_info' = 0
          /\ ~EndSessionCompletes => saved_transcripts' = saved_transcripts]_vars

\* one session ended with its transcript saved, a later one ended with an
\* empty transcript and without a file
C13_Witness ==
    /\ ui_pc = "idle"
    /\ ~is_recording
    /\ saved_transcripts[1] = <<Transcript(cl_buffer[1])>>
    /\ cl_buffer[1] # <<>>
    /\ cl_stop_rets[2] = <<Transcript(<<>>)>>
    /\ saved_transcripts[2] = <<>>
    /\ live_transcriber = 0
    /\ recording_session_path = 0

\* --------------------------------------------------- uploaded-file errors
\* the Transcribe handler ran and its transcription call raised
TranscriptionFailed == up_last' # up_last /\ up_last'[1] = "transcribe"

\* C14: a run of the Transcribe handler whose transcription call raises,
\* whatever the exception, leaves every earlier session folder as it was,
\* leaves its own new folder with the audio file in it and without a
\* transcription.txt, and leaves transcription_result,
\* transcription_session_path and transcription_session_folder unchanged.
C14_FailureKeepsArtifacts ==
    [][TranscriptionFailed =>
          /\ up_folders' = up_folders + 1
          /\ \A f \in 1..up_folders :
                 up_files'[f] = up_files[f] /\ up_transcripts'[f] = up_transcripts[f]
          /\ "audio" \in up_files'[up_folders']
          /\ up_transcripts'[up_folders'] = <<>>
          /\ UNCHANGED <<transcription_result, transcription_session_path,
                         transcription_session_folder>>]_vars

\* a first run succeeded, a second run failed in the transcription call with
\* an unexpected exception after the MP3 was made
C14_Witness ==
    /\ up_folders = 2
    /\ up_last = <<"transcribe", "Exception">>
    /\ up_files[2] = {"audio", "mp3"}
    /\ up_transcripts[2] = <<>>
    /\ up_transcripts[1] # <<>>
    /\ transcription_session_path = 1
    /\ transcription_result = up_transcripts[1]

\* ------------------------------------------------- labelled transcripts
Digits == {"0", "1", "2", "3", "4", "5", "6", "7", "8", "9"}

\* line starts with "Speaker NN: "
HasSpeakerNN(line) ==
    /\ Len(line) >= 12
    /\ SubSeq(line, 1, 8) = <<"S", "p", "e", "a", "k", "e", "r", " ">>
    /\ line[9] \in Digits
    /\ line[10] \in Digits
    /\ SubSeq(line, 11, 12) = COLON_SP

\* line starts with "UNKNOWN: "
HasUnknown(line) == Len(line) >= 9 /\ SubSeq(line, 1, 9) = UNKNOWN \o COLON_SP

SingleLine(line) == \A k \in 1..Len(line) : line[k] # "\n"

\* the labelled transcript this state holds, if any: the result of align
\* with a non-empty interval list, or of format_diarized_transcript on
\* utterances or on words
FromAlign == pc = "align" /\ Called /\ speaker_segments # <<>>
FromUtterances == pc = "cloud" /\ formatted # <<>> /\ response.utterances # <<>>
FromWords ==
    /\ pc = "cloud"
    /\ formatted # <<>>
    /\ response.utterances = <<>>
    /\ response.channels # <<>>
    /\ response.channels[1].alternatives # <<>>
    /\ response.channels[1].alternatives[1].words # <<>>
Labelled == IF FromAlign THEN result[1] ELSE formatted[1]

\* C15 as stated: every turn is one line "Speaker NN: <non-empty text>" and
\* the turns are separated by exactly one blank line.
C15_LabelledFormat ==
    (FromAlign \/ FromUtterances \/ FromWords) =>
        LET lines == Lines(Labelled)
        IN /\ Join(lines, NLNL) = Labelled
           /\ \A k \in 1..Len(lines) :
                  /\ SingleLine(lines[k])
                  /\ HasSpeakerNN(lines[k])
                  /\ Len(lines[k]) > 12

\* C15, amended: the turns are single lines separated by exactly one blank
\* line, with no blank line before the first or after the last; a turn of
\* format_diarized_transcript is "Speaker NN: <non-empty text>"; a turn of
\* align is "<label>: <text>" where the label is Speaker NN or UNKNOWN and
\* the text may be empty.
C15_LabelledFormatAmended ==
    (FromAlign \/ FromUtterances \/ FromWords) =>
        LET lines == Lines(Labelled)
        IN /\ Join(lines, NLNL) = Labelled
           /\ \A k \in 1..Len(lines) :
                  /\ SingleLine(lines[k])
                  /\ IF FromAlign
                     THEN HasSpeakerNN(lines[k]) \/ HasUnknown(lines[k])
                     ELSE HasSpeakerNN(lines[k]) /\ Len(lines[k]) > 12

\* three utterances, one without text skipped, one stripped, two turns out
C15_Witness ==
    /\ FromUtterances
    /\ Len(response.utterances) = 3
    /\ response.utterances[1].transcript = <<<<" ", "b">>>>
    /\ response.utterances[2].transcript = <<<<" ">>>>
    /\ response.utterances[3].speaker = <<10>>
    /\ Len(Lines(formatted[1])) = 2

\* the speaker label a turn of format_diarized_transcript starts with
LabelOf(line) == SubSeq(line, 1, 10)

\* C16: in the output of format_diarized_transcript, from utterances and
\* from words alike, no two adjacent lines carry the same speaker label.
C16_ContiguousRuns ==
    (FromUtterances \/ FromWords) =>
        LET lines == Lines(formatted[1])
        IN \A k \in 1..(Len(lines) - 1) : LabelOf(lines[k]) # LabelOf(lines[k + 1])

\* two utterances of one speaker in a row come out as two lines with the
\* same label
C16_Witness ==
    /\ FromUtterances
    /\ response.utterances = <<[speaker |-> <<1>>, transcript |-> <<<<"a">>>>],
                               [speaker |-> <<1>>, transcript |-> <<<<" ", "b">>>>]>>
    /\ formatted[1] = Join(<<SpeakerLabel(1) \o COLON_SP \o <<"a">>,
                             SpeakerLabel(1) \o COLON_SP \o <<"b">>>>, NLNL)

\* ------------------------------------------------------ recogniser output
\* C17: the segments a recogniser function returns are ordered by start.
C17_MonotonicOffsets ==
    pc = "returned" =>
        \A i \in 1..(Len(text_segments) - 1) :
            text_segments[i].start <= text_segments[i + 1].start

\* a Voxtral response whose second item has no "start": the offsets 1, 0
C17_Witness ==
    /\ pc = "returned"
    /\ engine = "voxtral"
    /\ Len(raw_segments) = 2
    /\ raw_segments[1].start = <<1>>
    /\ raw_segments[2].start = <<>>
    /\ text_segments[1].start = 1
    /\ text_segments[2].start = 0

\* ---------------------------------------------- transcribe_with_deepgram
\* the last call got as far as the request and the request raised
ApiCallFailed ==
    /\ dg_out.raised # "none"
    /\ dg_trace # <<>>
    /\ dg_trace[Len(dg_trace)] = <<"transcribe_file">>

\* without the key a call raises RuntimeError having done nothing else
KeyMissingRaisesFirst ==
    ~dg_key =>
        /\ dg_out.raised \in {"none", "RuntimeError"}
        /\ dg_out.returned = <<>>
        /\ dg_trace = <<>>
        /\ conv_calls = 0

SecondComponentTrue == dg_out.returned # <<>> => dg_out.returned[1][2] = TRUE

\* C18: transcribe_with_deepgram raises RuntimeError when the key is missing
\* or the API call fails; without the key it raises before the progress
\* callback, the conversion and the request; a returned pair ends in True.
C18_DeepgramErrors ==
    /\ KeyMissingRaisesFirst
    /\ ApiCallFailed => dg_out.raised = "RuntimeError"
    /\ SecondComponentTrue

\* with the key set the request is made and raises the SDK's ApiError, which
\* leaves the function as it is
C18_Witness ==
    /\ dg_key
    /\ ApiCallFailed
    /\ dg_out = Raise("ApiError")

\* ----------------------------------------------------- convert_wav_to_mp3
\* a step that is a call of convert_wav_to_mp3
ConvertCalled == conv_calls' = conv_calls + 1

\* the call skips exactly when the MP3 exists and is newer than the WAV, and
\* then returns mp3_path leaving the MP3 alone; otherwise it runs FFmpeg,
\* returns mp3_path on exit code 0 and raises RuntimeError on any other
SkipsExactlyWhenNewer ==
    ConvertCalled =>
        /\ ~conv_ran' <=> (mp3_mtime # <<>> /\ mp3_mtime[1] > wav_mtime)
        /\ ~conv_ran' => (conv_ret' = "mp3_path" /\ mp3_mtime' = mp3_mtime)
        /\ conv_rc' = <<0>> => (conv_ret' = "mp3_path" /\ mp3_mtime' = <<now>>)
        /\ (conv_rc' # <<>> /\ conv_rc' # <<0>>) => conv_ret' = "RuntimeError"

\* the call before this one converted successfully and the WAV is as it was
SecondCallUnchangedWav ==
    /\ ConvertCalled
    /\ conv_ran
    /\ conv_ret = "mp3_path"
    /\ conv_wav = <<wav_mtime>>

\* C19 as stated: the call skips exactly when the MP3 exists and is newer
\* than the WAV, otherwise runs FFmpeg and returns or raises by its exit
\* code; hence a second call on an unchanged WAV after a successful
\* conversion returns the path without converting again.
C19_ConvertOnce ==
    [][/\ SkipsExactlyWhenNewer
       /\ SecondCallUnchangedWav => (~conv_ran' /\ conv_ret' = "mp3_path")]_vars

\* C19: the call skips exactly when the MP3 exists and is newer than the
\* WAV, otherwise runs FFmpeg and returns or raises by its exit code; a
\* second call on an unchanged WAV after a successful conversion returns the
\* path without converting again when the MP3 got a later timestamp than the
\* WAV, and runs FFmpeg again when the two timestamps are equal.
C19_ConvertOnceAmended ==
    [][/\ SkipsExactlyWhenNewer
       /\ SecondCallUnchangedWav =>
              /\ mp3_mtime # <<>>
              /\ mp3_mtime[1] >= wav_mtime
              /\ mp3_mtime[1] > wav_mtime => (~conv_ran' /\ conv_ret' = "mp3_path")
              /\ mp3_mtime[1] = wav_mtime => conv_ran']_vars

\* the second call found the MP3 of the first, newer than the WAV, and
\* returned it without running FFmpeg
C19_Witness ==
    /\ pc = "convert"
    /\ conv_calls = 2
    /\ ~conv_ran
    /\ conv_ret = "mp3_path"
    /\ conv_wav = <<wav_mtime>>
    /\ mp3_mtime # <<>>
    /\ mp3_mtime[1] > wav_mtime

\* -------------------------------------------------- verify_document_draft
\* the tool has answered the call made with the current attempt
Answered == pc = "verify" /\ reply # "none"

\* C20: every call with attempt >= 4 returns the attempt-limit message
\* whatever the content and the document type, so the agent that counts its
\* attempts saves after at most 4 verifications; below 4 a homework passes
\* exactly when it has at most 1800 characters and a draft exactly when it
\* has at most 2500.
C20_VerifyLoopBounded ==
    /\ (Answered /\ attempt >= 4) => reply = "ATTEMPT LIMIT REACHED"
    /\ pc = "verify" => verifications <= 4
    /\ (Answered /\ verifications = 4) => (Passes(reply) \/ reply = "ATTEMPT LIMIT REACHED")
    /\ (Answered /\ attempt < 4 /\ document_type = "homework") =>
           (Passes(reply) <=> draft.total <= 1800)
    /\ (Answered /\ attempt < 4 /\ document_type = "draft") =>
           (Passes(reply) <=> draft.total <= 2500)

\* three failed verifications of a homework of 1801 characters, the fourth
\* call answered by the limit message, and the document saved
C20_Witness ==
    /\ pc = "verify"
    /\ document_type = "homework"
    /\ draft.total = 1801
    /\ attempt = 4
    /\ verifications = 4
    /\ reply = "ATTEMPT LIMIT REACHED"
    /\ doc_saved

\* ------------------------------------------- word-level fallback: words
\* the words of alt.words, in order
InputWords ==
    LET words == response.channels[1].alternatives[1].words
    IN [k \in 1..Len(words) |-> words[k].word]

\* the characters of a string that are not spaces, in order
RECURSIVE NonSpaces(_)
NonSpaces(s) ==
    IF s = <<>> THEN <<>>
    ELSE (IF Head(s) = " " THEN <<>> ELSE <<Head(s)>>) \o NonSpaces(Tail(s))

\* the words the output lines carry after their "Speaker NN: ", in order
RECURSIVE OutputWords(_)
OutputWords(lines) ==
    IF lines = <<>> THEN <<>>
    ELSE NonSpaces(SubSeq(Head(lines), 13, Len(Head(lines)))) \o OutputWords(Tail(lines))

\* C27: from words, the output carries every word of alt.words exactly once
\* and in order, also when some words have no speaker.
C27_WordsKept == FromWords => OutputWords(Lines(formatted[1])) = InputWords

\* the first word has no speaker, the second has: only the second is in the
\* output
C27_Witness ==
    /\ FromWords
    /\ response.channels[1].alternatives[1].words =
           <<[word |-> <<"a">>, speaker |-> <<>>], [word |-> <<"b">>, speaker |-> <<1>>]>>
    /\ formatted[1] = SpeakerLabel(1) \o COLON_SP \o <<"b">>

\* ------------------------------------------------- align: texts are kept
\* what follows the first ": " of a line
BodyOf(line) ==
    LET at == MinOf({i \in 1..(Len(line) - 1) : line[i] = ":" /\ line[i + 1] = " "})
    IN SubSeq(line, at + 2, Len(line))

OutputBodies(text) == LET lines == Lines(text) IN [k \in 1..Len(lines) |-> BodyOf(lines[k])]

\* C26: with a non-empty interval list of non-empty labels, the texts the
\* output lines carry, taken in line order, are the texts of the input
\* segments in input order, each once.
C26_TextsKept ==
    FromAlign => Join(OutputBodies(result[1]), SP) = Join(SegTexts(text_segments), SP)

\* three segments in two turns, the last turn flushed after the loop
C26_Witness ==
    /\ FromAlign
    /\ Len(text_segments) = 3
    /\ SegTexts(text_segments) = <<<<"a">>, <<"b">>, <<"a">>>>
    /\ Len(Lines(result[1])) = 2
    /\ OutputBodies(result[1]) = <<<<"a", " ", "b">>, <<"a">>>>

\* ------------------------------------------------- the diarization flag
\* the final text came from the grouping loop of align, which labels turns
MergePath == text_segments # <<>> /\ speaker_segments # <<>>

\* C28: once the final text is computed, had_diarization is True exactly
\* when the text was produced by the speaker-labelled merge path and False
\* exactly when it is unlabeled.
C28_FlagMatchesTranscript ==
    pc \in {"save", "saved"} => (had_diarization <=> MergePath)

\* diarization returned no turns: the flag is True and what is saved is the
\* segments' texts joined by newlines, without labels
C28_Witness ==
    /\ pc = "saved"
    /\ diar = "ok"
    /\ speaker_segments = <<>>
    /\ Len(text_segments) = 2
    /\ saved[1].had_diarization
    /\ saved[1].transcription = Join(SegTexts(text_segments), NL)

\* ------------------------------------------ summary verification answers
\* C29: whenever a summary verification below the attempt limit answers
\* EDIT REQUIRED, its SPECIFIC EDITS NEEDED list has at least one instruction.
C29_FailureActionable ==
    (Answered /\ document_type = "summary" /\ attempt < 4 /\ reply = "EDIT REQUIRED") =>
        edit_instructions # <<>>

\* a summary whose only fault is a title of 41 characters: EDIT REQUIRED
\* with an empty list
C29_Witness ==
    /\ Answered
    /\ document_type = "summary"
    /\ attempt < 4
    /\ draft = [SweetSpot EXCEPT !.title = 41]
    /\ reply = "EDIT REQUIRED"
    /\ edit_instructions = <<>>

\* ------------------------------------------- live transcribers are stopped
\* start() of c returned true and stop() of c was never called
StartedNotStopped(c) ==
    /\ cl_start_ret[c] = <<TRUE>>
    /\ cl_call[c] = "none"
    /\ cl_stop_rets[c] = <<>>

\* C23: between handlers, with is_recording False the session holds no live
\* transcriber, and every transcriber that was started and not yet stopped
\* is the one the session holds, so that End Session stops it: none is
\* replaced while it is connected.
C23_NoTranscriberLeaked ==
    (pc = "live" /\ ui_pc = "idle") =>
        /\ ~is_recording => live_transcriber = 0
        /\ \A c \in ClientIds : StartedNotStopped(c) => live_transcriber = c

\* the first transcriber was started, start_recording raised, and a second
\* Start Session put the second transcriber in its place: the first is
\* still streaming and nothing refers to it
C23_Witness ==
    /\ pc = "live"
    /\ ui_pc = "idle"
    /\ is_recording
    /\ live_transcriber = 2
    /\ StartedNotStopped(1)
    /\ cl_state[1] = "Streaming"

\* --------------------------------------------------- live-session ordering
\* C24: a capture session is running, and so send_audio can be invoked,
\* only for a transcriber whose start() has returned true and whose stop()
\* has not been called: start() returns before start_recording registers
\* the callback, and stop_recording returns before stop() is called.
C24_SendAudioOnlyWhileStarted ==
    pc = "live" =>
        \A s \in active_sessions :
            /\ cl_start_ret[s] = <<TRUE>>
            /\ cl_call[s] # "stop"
            /\ cl_stop_rets[s] = <<>>
            /\ is_recording
            /\ live_transcriber = s

\* End Session in progress: the capture session is gone and stop() of the
\* transcriber it fed has been called and has not yet returned
C24_Witness ==
    /\ pc = "live"
    /\ ui_pc = "ending"
    /\ active_sessions = {}
    /\ live_transcriber = 1
    /\ cl_start_ret[1] = <<TRUE>>
    /\ cl_call[1] = "stop"
    /\ cl_buffer[1] # <<>>

\* ---------------------------------------------------------------------------
\* Session folders and Tab 3, Active Clients (app.py)
\* ---------------------------------------------------------------------------

\* the clients listed by get_active_clients
ActiveClients == {<<"A">>, <<"B">>}

\* names typed into the client field of Tab 1
TypedNames == {<<"A">>, <<" ", "A">>, <<"A", "!">>, <<"B">>, <<"B", " ", "B">>}

ClientTypes == {"Undefined", "Active"}

Dates == {1, 2}

\* text of an uploaded transcription file, text produced by a transcription
UploadedTexts == {"u"}

TranscribedTexts == {"t"}

\* sanitize_client_name: strip, spaces to underscores, keep isalnum and "_-"
RECURSIVE ReplaceSpaces(_)
ReplaceSpaces(name) ==
    IF name = <<>> THEN <<>>
    ELSE <<IF Head(name) = " " THEN "_" ELSE Head(name)>> \o ReplaceSpaces(Tail(name))

IsAlnum(c) == c \in {"A", "B"}

RECURSIVE KeepSafe(_)
KeepSafe(name) ==
    IF name = <<>> THEN <<>>
    ELSE (IF IsAlnum(Head(name)) \/ Head(name) \in {"_", "-"} THEN <<Head(name)>> ELSE <<>>)
         \o KeepSafe(Tail(name))

sanitize_client_name(name) ==
    IF name = <<>> THEN name ELSE KeepSafe(ReplaceSpaces(Strip(name)))

\* the folder base_path/client/Session_{num}_{date}
FolderId(base_path, client, folder) ==
    [base |-> base_path, client |-> client, num |-> folder.num, date |-> folder.date]

\* the entries of base_path/client whose name starts with "Session_"
SessionFolders(d, base_path, client) ==
    {f \in DOMAIN d : f.base = base_path /\ f.client = client}

\* get_client_sessions: the names of the session folders of an active client
get_client_sessions(d, client) ==
    {[num |-> f.num, date |-> f.date] : f \in SessionFolders(d, "Active", client)}

\* 1 when the client has no folder, else the number of Session_ entries + 1
get_next_session_number_for_path(d, client_name, base_path) ==
    Cardinality(SessionFolders(d, base_path, client_name)) + 1

get_next_session_number(d, client_name) ==
    Cardinality(SessionFolders(d, "Active", client_name)) + 1

\* os.makedirs(path, exist_ok=True); by records which operation made the folder
makedirs(d, f, by) ==
    IF f \in DOMAIN d THEN d
    ELSE [g \in DOMAIN d \cup {f} |->
            IF g \in DOMAIN d THEN d[g]
            ELSE [transcription |-> <<>>, docs |-> {}, created_by |-> by,
                  written_by |-> <<>>]]

\* write transcription.txt into the folder, replacing the file if it is there;
\* written_by records the operation that wrote the file last
WriteTranscription(d, f, text, by) ==
    [d EXCEPT ![f].transcription = <<text>>, ![f].written_by = <<by>>]

\* create_session_folder_for_transcription: both branches number the folder
\* with get_next_session_number_for_path
create_session_folder_for_transcription(d, client_name, client_type, session_date) ==
    LET safe_client_name == sanitize_client_name(client_name)
        base_path == client_type
        session_num == get_next_session_number_for_path(d, safe_client_name, base_path)
        folder_name == [num |-> session_num, date |-> session_date]
        full_path == FolderId(base_path, safe_client_name, folder_name)
    IN  [disk |-> makedirs(d, full_path, "transcribe"), full_path |-> full_path,
         folder_name |-> folder_name, safe_client_name |-> safe_client_name]

\* what the states of Tab 3 share when a selection changes
Cleared(S) ==
    [S EXCEPT !.loaded_transcription = <<>>, !.transcription_added_to_chat = FALSE,
              !.documents_added_to_chat = FALSE, !.messages_active = <<>>,
              !.session_documents = <<>>]

\* get_or_create_session_folder: the name is cached in the session state, the
\* folder is not created
get_or_create_session_folder(S, d, client_name, session_date) ==
    LET S1 == IF S.current_active_client # <<client_name>>
                 \/ S.current_session_date # <<session_date>>
              THEN [S EXCEPT !.current_session_folder = <<>>,
                             !.current_active_client = <<client_name>>,
                             !.current_session_date = <<session_date>>]
              ELSE S
    IN  IF S1.current_session_folder = <<>>
        THEN [S1 EXCEPT !.current_session_folder =
                  <<[num |-> get_next_session_number(d, client_name),
                     date |-> session_date]>>]
        ELSE S1

\* a chat message; marker is the bracketed prefix of its content, body what
\* follows it, and body.for the client and session the body was taken from
Message(role, marker, body) == [role |-> role, marker |-> marker, body |-> body]

\* a text with the client and session folder it belongs to
TextOf(text, client, folder) == [text |-> text, for |-> <<client, folder>>]

\* "[Session transcription" in the content of some message
HasTranscriptionMessage(msgs) ==
    \E i \in DOMAIN msgs : msgs[i].marker[1] = "transcription"

\* the session_documents dict, in insertion order
DictKeys(dict) == {dict[i][1] : i \in DOMAIN dict}

DictSet(dict, key, value) ==
    IF key \in DictKeys(dict)
    THEN [i \in DOMAIN dict |-> IF dict[i][1] = key THEN <<key, value>> ELSE dict[i]]
    ELSE Append(dict, <<key, value>>)

RECURSIVE DictFromFiles(_, _, _, _, _)
DictFromFiles(dict, pairs, docs, client, folder) ==
    IF pairs = <<>> THEN dict
    ELSE DictFromFiles(
            IF Head(pairs)[2] \in docs
            THEN DictSet(dict, Head(pairs)[1], TextOf(Head(pairs)[2], client, folder))
            ELSE dict,
            Tail(pairs), docs, client, folder)

DocFiles == {"summary.txt", "homework.txt", "next_session.txt"}

\* load_session_documents: key and file name
doc_files == <<<<"summary", "summary.txt">>, <<"homework", "homework.txt">>,
               <<"next_session", "next_session.txt">>>>

\* the scan after the agent's response: key and file name
scanned_files == <<<<"summary", "summary.txt">>, <<"homework", "homework.txt">>,
                   <<"next_prep", "next_session.txt">>>>

\* the display: key and the file its expander shows
doc_mapping == <<<<"summary", "summary.txt">>, <<"homework", "homework.txt">>,
                 <<"next_session", "next_session.txt">>>>

load_session_documents(d, client, folder) ==
    DictFromFiles(<<>>, doc_files, d[FolderId("Active", client, folder)].docs, client, folder)

\* one "[Session {doc_type} loaded]" message per document not yet in the chat
RECURSIVE AddDocuments(_, _)
AddDocuments(msgs, dict) ==
    IF dict = <<>> THEN msgs
    ELSE AddDocuments(
            IF \E i \in DOMAIN msgs : msgs[i].marker = <<Head(dict)[1], "loaded">>
            THEN msgs
            ELSE Append(msgs, Message("user", <<Head(dict)[1], "loaded">>, Head(dict)[2])),
            Tail(dict))

\* The steps of Tab 3 down to the upload widget, in the order of the code.
\* option is <<>> for "+ Create New Session", else the name of an existing
\* session; session_date is the optional value of the date input.

\* reset when the client changed
ClientChanged(S, selected_client) ==
    IF S.current_active_client # <<selected_client>>
    THEN [Cleared(S) EXCEPT !.current_active_client = <<selected_client>>,
                            !.current_session_folder = <<>>,
                            !.is_new_session_mode = FALSE]
    ELSE S

\* the session selectbox and the date input
SessionSelected(S, d, selected_client, option, session_date) ==
    IF option = <<>> /\ session_date # <<>>
    THEN get_or_create_session_folder(S, d, selected_client, session_date[1])
    ELSE S

\* session_folder, as the branches of the selection set it
SessionFolderOf(S, option, session_date) ==
    IF option = <<>>
    THEN (IF session_date # <<>> THEN S.current_session_folder ELSE <<>>)
    ELSE option

\* reset when switching to new session mode, then reset when the session changed
SessionChanged(S, is_new_session, session_folder) ==
    LET T == [(IF is_new_session /\ ~S.is_new_session_mode THEN Cleared(S) ELSE S)
                 EXCEPT !.is_new_session_mode = is_new_session]
    IN  IF T.current_session_folder # session_folder
        THEN [Cleared(T) EXCEPT !.current_session_folder = session_folder]
        ELSE T

\* load_session_transcription of an existing session
LoadTranscription(S, d, selected_client, is_new_session, session_folder) ==
    IF ~is_new_session /\ S.loaded_transcription = <<>>
       /\ d[FolderId("Active", selected_client, session_folder[1])].transcription # <<>>
    THEN [S EXCEPT !.loaded_transcription =
              <<TextOf(d[FolderId("Active", selected_client, session_folder[1])].transcription[1],
                       selected_client, session_folder)>>]
    ELSE S

\* load_session_documents of an existing session
LoadDocuments(S, d, selected_client, is_new_session, session_folder) ==
    IF ~is_new_session /\ S.session_documents = <<>>
    THEN [S EXCEPT !.session_documents =
              load_session_documents(d, selected_client, session_folder[1])]
    ELSE S

\* "[Session transcription loaded]" is added to the chat
TranscriptionToChat(S) ==
    IF S.loaded_transcription # <<>> /\ ~S.transcription_added_to_chat
    THEN [S EXCEPT !.messages_active =
              IF HasTranscriptionMessage(@) THEN @
              ELSE Append(@, Message("user", <<"transcription", "loaded">>,
                                     S.loaded_transcription[1])),
                   !.transcription_added_to_chat = TRUE]
    ELSE S

\* the documents are added to the chat
DocumentsToChat(S) ==
    IF S.session_documents # <<>> /\ ~S.documents_added_to_chat
    THEN [S EXCEPT !.messages_active = AddDocuments(@, S.session_documents),
                   !.documents_added_to_chat = TRUE]
    ELSE S

\* the upload of a transcription file with the text file_content; by is
\* "upload" for the uploader of a new session and "replace" for the uploader
\* "Or upload a different transcription" of an existing session
UploadTranscription(S, d, selected_client, session_folder, file_content, by) ==
    LET session_path == FolderId("Active", selected_client, session_folder[1])
        body == TextOf(file_content, selected_client, session_folder)
    IN  [disk |-> WriteTranscription(makedirs(d, session_path, by), session_path,
                                     file_content, by),
         state |-> [S EXCEPT !.loaded_transcription = <<body>>,
                             !.messages_active =
                                 IF \E i \in DOMAIN @ : /\ @[i].marker = <<"transcription", "file">>
                                                        /\ @[i].body.text = file_content
                                 THEN @
                                 ELSE Append(@, Message("user", <<"transcription", "file">>, body)),
                             !.transcription_added_to_chat = TRUE]]

\* the chat input: the prompt, the agent's response, the files the agent saved
\* into the session folder (write_text fails when the folder does not exist),
\* and the scan for generated documents
Chat(S, d, selected_client, session_folder, written) ==
    LET session_path == FolderId("Active", selected_client, session_folder[1])
        d1 == IF session_path \in DOMAIN d
              THEN [d EXCEPT ![session_path].docs = @ \cup written]
              ELSE d
        docs == IF session_path \in DOMAIN d THEN d1[session_path].docs ELSE {}
        prompt == Message("user", <<"prompt">>, TextOf("prompt", selected_client, session_folder))
        answer == Message("assistant", <<"response">>,
                          TextOf("response", selected_client, session_folder))
    IN  [disk |-> d1,
         state |-> [S EXCEPT !.messages_active = Append(Append(@, prompt), answer),
                             !.session_documents =
                                 DictFromFiles(@, scanned_files, docs, selected_client,
                                               session_folder)]]

\* the expanders of the generated documents
Displayed(S) ==
    {doc_mapping[i][2] : i \in {j \in DOMAIN doc_mapping :
                                    doc_mapping[j][1] \in DictKeys(S.session_documents)}}

Prompts(msgs) == Cardinality({i \in DOMAIN msgs : msgs[i].marker = <<"prompt">>})

\* what the agent saves while it answers
AgentWrites == {{}, DocFiles}

\* one rerun of Tab 3
ActiveTabRerun ==
    /\ pc = "active"
    /\ last_rerun.reruns < MaxReruns
    /\ \E selected_client \in ActiveClients :
       \E option \in {<<>>} \cup {<<s>> : s \in get_client_sessions(disk, selected_client)},
          session_date \in {<<>>} \cup {<<x>> : x \in Dates} :
        \* the date input is shown in new session mode only
        /\ option # <<>> => session_date = <<>>
        /\ \E S1 \in {ClientChanged(session_state, selected_client)} :
           \E S2 \in {SessionSelected(S1, disk, selected_client, option, session_date)} :
           \E is_new_session \in {option = <<>>},
              session_folder \in {SessionFolderOf(S2, option, session_date)} :
           \E S3 \in {SessionChanged(S2, is_new_session, session_folder)} :
           \E S4 \in {LoadTranscription(S3, disk, selected_client, is_new_session, session_folder)} :
           \E S5 \in {LoadDocuments(S4, disk, selected_client, is_new_session, session_folder)} :
           \E S6 \in {TranscriptionToChat(S5)} :
           \E S7 \in {DocumentsToChat(S6)} :
           \E uploaded_file \in {<<>>} \cup {<<t>> : t \in UploadedTexts} :
            \* the uploader is disabled until a date is selected
            /\ uploaded_file # <<>> => session_folder # <<>>
            /\ \E up \in {IF uploaded_file # <<>>
                          THEN UploadTranscription(S7, disk, selected_client, session_folder,
                                   uploaded_file[1],
                                   IF is_new_session THEN "upload" ELSE "replace")
                          ELSE [disk |-> disk, state |-> S7]} :
                /\ Cardinality(DOMAIN up.disk) <= MaxFolders
                /\ \E prompt \in BOOLEAN, written \in AgentWrites :
                    \* the chat input is disabled until a transcription is loaded
                    /\ prompt => /\ up.state.loaded_transcription # <<>>
                                 /\ Prompts(up.state.messages_active) < MaxPrompts
                    /\ ~prompt => written = {}
                    /\ \E ch \in {IF prompt
                                  THEN Chat(up.state, up.disk, selected_client, session_folder,
                                            written)
                                  ELSE up} :
                        /\ disk' = ch.disk
                        /\ session_state' = ch.state
                        /\ last_rerun' = [reruns |-> last_rerun.reruns + 1,
                                          client |-> <<selected_client>>,
                                          session_folder |-> session_folder,
                                          is_new |-> is_new_session, chatted |-> prompt,
                                          shown |-> IF prompt THEN {} ELSE Displayed(ch.state)]
                        /\ UNCHANGED last_created
    /\ UNCHANGED <<alignVars, batchVars, clientVars, appVars, chunkVars, uploadVars, cloudVars,
                   engineVars, convVars, dgVars, verifyVars>>

\* Tab 1: the transcription of an audio file for a client: the session folder
\* is created, the audio is transcribed and transcription.txt is saved
TranscribeForClient(client_types) ==
    /\ pc \in {"active", "folders"}
    /\ Cardinality(DOMAIN disk) < MaxFolders
    /\ \E client_type \in client_types, session_date \in Dates, text \in TranscribedTexts :
        \E client_name \in (IF client_type = "Active" THEN ActiveClients ELSE TypedNames) :
          LET existing == Cardinality(SessionFolders(disk, client_type,
                                                     sanitize_client_name(client_name)))
              made == create_session_folder_for_transcription(disk, client_name, client_type,
                                                              session_date)
          IN  /\ disk' = WriteTranscription(made.disk, made.full_path, text, "transcribe")
              /\ last_created' = <<[client_type |-> client_type, existing |-> existing,
                                    session_date |-> session_date,
                                    full_path |-> made.full_path]>>
    /\ UNCHANGED <<session_state, last_rerun>>
    /\ UNCHANGED <<alignVars, batchVars, clientVars, appVars, chunkVars, uploadVars, cloudVars,
                   engineVars, convVars, dgVars, verifyVars>>

InitActive ==
    /\ pc = "active"
    /\ text_segments = <<>>
    /\ speaker_segments = <<>>
    /\ result = <<>>
    /\ BatchIdle
    /\ ClientsIdle
    /\ AppIdle
    /\ RestIdle
    /\ dg_key = FALSE

\* Tab 3 together with the transcriptions of Tab 1 for the active clients
NextActive == ActiveTabRerun \/ TranscribeForClient({"Active"})

SpecActive == InitActive /\ [][NextActive]_vars

\* the transcriptions of Tab 1 alone, for clients of both types
InitFolders ==
    /\ pc = "folders"
    /\ text_segments = <<>>
    /\ speaker_segments = <<>>
    /\ result = <<>>
    /\ BatchIdle
    /\ ClientsIdle
    /\ AppIdle
    /\ RestIdle
    /\ dg_key = FALSE

NextFolders == TranscribeForClient(ClientTypes)

SpecFolders == InitFolders /\ [][NextFolders]_vars

\* ---------------------------------------------------------------------------
\* C22: create_session_folder_for_transcription numbers the folder of an
\* Undefined client Session_1 always, and the folder of an Active client that
\* has N Session_ folders Session_(N+1); the name ends with the session date.
\* ---------------------------------------------------------------------------
C22_SessionNumbering ==
    last_created # <<>> =>
        LET c == last_created[1]
        IN  /\ c.full_path.date = c.session_date
            /\ c.client_type = "Undefined" => c.full_path.num = 1
            /\ c.client_type = "Active" => c.full_path.num = c.existing + 1

\* an Undefined client that had a session folder was given Session_2
C22_Witness ==
    /\ pc = "folders"
    /\ last_created # <<>>
    /\ last_created[1].client_type = "Undefined"
    /\ last_created[1].existing = 1
    /\ last_created[1].full_path.num = 2
    /\ last_created[1].full_path \in DOMAIN disk

\* ---------------------------------------------------------------------------
\* C30: the scan after the agent's response stores summary.txt, homework.txt
\* and next_session.txt in session_documents under keys that the display
\* mapping and load_session_documents use, so every generated document is
\* offered on the following rerun.
\* ---------------------------------------------------------------------------
KeysOf(pairs) == {pairs[i][1] : i \in DOMAIN pairs}

C30_DocumentsVisible ==
    pc = "active" =>
        DictKeys(session_state.session_documents) \subseteq (KeysOf(doc_mapping) \cap KeysOf(doc_files))

\* the rerun after the agent saved the three documents shows the summary but
\* not next_session.txt, which is stored under "next_prep"
C30_Witness ==
    /\ pc = "active"
    /\ ~last_rerun.chatted
    /\ last_rerun.session_folder # <<>>
    /\ LET f == FolderId("Active", last_rerun.client[1], last_rerun.session_folder[1])
       IN  /\ f \in DOMAIN disk
           /\ DocFiles \subseteq disk[f].docs
    /\ "next_prep" \in DictKeys(session_state.session_documents)
    /\ "summary.txt" \in last_rerun.shown
    /\ "next_session.txt" \notin last_rerun.shown

\* ---------------------------------------------------------------------------
\* C21: whenever the selected client or the current session folder differs
\* from the one of the previous rerun (a new-session folder recomputed for a
\* changed date included), messages_active and session_documents are cleared
\* before anything is appended: after every rerun of Tab 3 the chat context
\* and the stored documents hold material of the selected client and session
\* only.
\* ---------------------------------------------------------------------------
CurrentSession == <<last_rerun.client[1], last_rerun.session_folder>>

C21_ContextIsolated ==
    (pc = "active" /\ last_rerun.reruns > 0) =>
        /\ \A i \in DOMAIN session_state.messages_active :
              session_state.messages_active[i].body.for = CurrentSession
        /\ \A i \in DOMAIN session_state.session_documents :
              session_state.session_documents[i][2].for = CurrentSession

\* the date of a new session was changed after an upload: the folder name was
\* recomputed and the chat still holds the transcription of the first folder
C21_Witness ==
    /\ pc = "active"
    /\ last_rerun.is_new
    /\ last_rerun.session_folder # <<>>
    /\ session_state.current_session_folder = last_rerun.session_folder
    /\ \E i \in DOMAIN session_state.messages_active :
          LET m == session_state.messages_active[i]
          IN  /\ m.marker = <<"transcription", "file">>
              /\ m.body.for[1] = last_rerun.client[1]
              /\ m.body.for[2] # last_rerun.session_folder
              /\ m.body.for[2][1].date # last_rerun.session_folder[1].date

\* ---------------------------------------------------------------------------
\* C25: session folders are never shared: the name that
\* get_or_create_session_folder caches for a new session never equals a folder
\* that create_session_folder_for_transcription creates for the same client,
\* so no upload of a new session overwrites the transcription.txt that a
\* transcription saved.
\* ---------------------------------------------------------------------------
CachedFolder ==
    FolderId("Active", session_state.current_active_client[1],
             session_state.current_session_folder[1])

C25_FoldersNotShared ==
    pc = "active" =>
        /\ (/\ session_state.is_new_session_mode
            /\ session_state.current_active_client # <<>>
            /\ session_state.current_session_folder # <<>>
            /\ CachedFolder \in DOMAIN disk)
           => disk[CachedFolder].created_by # "transcribe"
        /\ \A f \in DOMAIN disk :
              disk[f].created_by = "transcribe" => disk[f].written_by # <<"upload">>

\* the folder cached for the new session was created by the last transcription,
\* and the upload of the new session replaced the transcription saved there
C25_Witness ==
    /\ pc = "active"
    /\ session_state.is_new_session_mode
    /\ session_state.current_active_client # <<>>
    /\ session_state.current_session_folder # <<>>
    /\ last_created # <<>>
    /\ last_created[1].full_path = CachedFolder
    /\ CachedFolder \in DOMAIN disk
    /\ disk[CachedFolder].created_by = "transcribe"
    /\ disk[CachedFolder].written_by = <<"upload">>
    /\ disk[CachedFolder].transcription \in {<<u>> : u \in UploadedTexts}
    /\ last_rerun.reruns = 2

====
